---- MODULE Spec2Model ----
(***************************************************************************)
(* A model of the squad builder (UnifiedSquadBuilder.py), the central      *)
(* cache (central_cache.py), the fixture analyzer (FixtureAnalyzer.py) and *)
(* the ownership weights (OwnershipWeights.py) and the analysis engine     *)
(* (UnifiedAnalysisEngine.py).                                             *)
(*                                                                         *)
(* Units: prices and budgets are in tenths of a monetary unit (4.0 is 40), *)
(* momentum scores in hundredths (0.85 is 85), time in seconds. Ratios and  *)
(* sort keys are compared exactly, as fractions.                           *)
(* Optional values (Python's None) are sequences of length 0 or 1.         *)
(***************************************************************************)
EXTENDS Integers, Sequences, FiniteSets, TLC

VARIABLES
    cache,        \* central_cache.cache.cache: key -> [timestamp, data]
    now,          \* time.time()
    pc,           \* position of build_squad: idle, xi, bench, finish
    all_players,  \* the argument of the running or last build_squad call
    budget,       \* self.budget of the builder of that call
    groups,       \* players_by_position
    idx,          \* number of position groups of the current loop already filled
    starting_xi,  \* local starting_xi
    bench,        \* local bench
    total_cost,   \* local total_cost
    used_teams,   \* local used_teams
    steps,        \* history: one record per _select_players call of this build
    result,       \* what the last build_squad call returned (None before it)
    calls,        \* build_squad calls made so far
    ticks,        \* clock advances made so far
    fixtures_df,       \* FixtureAnalyzer.fixtures_df after cleaning: rows sorted by event
    teams_lookup,      \* FixtureAnalyzer.teams_lookup: team id -> team data
    current_gameweek,  \* FixtureAnalyzer.current_gameweek
    smart_cache,       \* FixtureAnalyzer.smart_cache
    last_single,       \* the last analyze_team_fixtures call and what it returned
    last_batch,        \* the last batch_analyze_all_teams call and what it returned
    ops,               \* FixtureAnalyzer calls made so far
    last_stats,        \* what the last get_cache_statistics call returned
    single_log,        \* history: (team, window) -> the first analyze_team_fixtures result
    last_op,           \* the last CentralCache call and what it returned
    prev_adjustment,   \* the calculate_ownership_adjustment call before the last one
    last_adjustment,   \* the last calculate_ownership_adjustment call and its result
    rng_draws,         \* random.random() calls made since random.seed(GLOBAL_SEED)
    scorings,          \* history: uncached scorings of a player with momentum >= 0
    requests,          \* UnifiedAnalysisEngine calls made so far
    last_request,      \* the last UnifiedAnalysisEngine call, its scorings and its outcome
    first_scored       \* history: player record -> what its first analyze_player returned

squadVars == <<cache, pc, all_players, budget, groups, idx, starting_xi, bench,
               total_cost, used_teams, steps, result, calls>>

fixtureVars == <<fixtures_df, teams_lookup, current_gameweek, smart_cache,
                 last_single, last_batch, ops, last_stats, single_log>>

builderVars == <<pc, all_players, budget, groups, idx, starting_xi, bench,
                 total_cost, used_teams, steps, result, calls>>

ownershipVars == <<prev_adjustment, last_adjustment>>

engineVars == <<rng_draws, scorings, requests, last_request, first_scored>>

serviceVars == <<last_op, prev_adjustment, last_adjustment, engineVars>>

----------------------------------------------------------------------------
(* Bounds of the model *)

MaxCalls == 2
MaxTicks == 2
MaxOps == 2
MaxRequests == 3
TightBudget == 600

(* Program constants *)

DefaultBudget == 1000
CacheTimeout == 1800
PriceFloor == 40
TeamCap == 3
MinChance == 75
SquadSize == 15
FixtureTimeout == 900
CleanInterval == 300

None == <<>>
Some(x) == <<x>>

NoChance == 0 - 1

Positions == <<"GK", "DEF", "MID", "FWD">>
PositionSet == {"GK", "DEF", "MID", "FWD"}

formation == ("GK" :> 1) @@ ("DEF" :> 4) @@ ("MID" :> 4) @@ ("FWD" :> 2)
bench_formation == ("GK" :> 1) @@ ("DEF" :> 1) @@ ("MID" :> 1) @@ ("FWD" :> 1)
RequiredCounts == ("GK" :> 2) @@ ("DEF" :> 5) @@ ("MID" :> 5) @@ ("FWD" :> 3)

Max(a, b) == IF a >= b THEN a ELSE b

----------------------------------------------------------------------------
(* StandardPlayer records and the player pools build_squad is called with *)

StandardPlayer(i, pos, team, pr, pts, mom, chance) ==
    [player_id |-> i, position |-> pos, team_name |-> team, price |-> pr,
     total_points |-> pts, momentum_score |-> mom, chance_of_playing |-> chance]

Roster == <<
    StandardPlayer(1,  "GK",  "B", 45, 60,  50, 100),
    StandardPlayer(3,  "GK",  "D", 40, 20,  30, 75),
    StandardPlayer(2,  "GK",  "C", 60, 80,  65, 100),
    StandardPlayer(4,  "DEF", "A", 50, 70,  60, 100),
    StandardPlayer(5,  "DEF", "A", 45, 65,  54, 100),
    StandardPlayer(6,  "DEF", "A", 40, 50,  44, 100),
    StandardPlayer(7,  "DEF", "A", 40, 45,  40, 100),
    StandardPlayer(8,  "DEF", "A", 55, 60,  50, 100),
    StandardPlayer(9,  "DEF", "B", 45, 40,  45, 100),
    StandardPlayer(10, "DEF", "C", 80, 42,  70, 100),
    StandardPlayer(11, "MID", "D", 80, 128, 80, 100),
    StandardPlayer(12, "MID", "E", 70, 60,  85, 100),
    StandardPlayer(13, "MID", "E", 60, 70,  60, 100),
    StandardPlayer(14, "MID", "F", 55, 50,  50, 100),
    StandardPlayer(15, "MID", "F", 50, 30,  40, 100),
    StandardPlayer(16, "MID", "G", 45, 25,  30, 100),
    StandardPlayer(17, "FWD", "G", 90, 120, 84, 100),
    StandardPlayer(18, "FWD", "D", 75, 80,  60, 100),
    StandardPlayer(19, "FWD", "E", 35, 10,  25, 100),
    StandardPlayer(20, "MID", "G", 40, 90,  95, 50),
    StandardPlayer(21, "FWD", "B", 0,  95,  90, 100),
    StandardPlayer(22, "GK",  "C", 40, 99,  99, NoChance),
    StandardPlayer(23, "MGR", "A", 40, 10,  99, 100) >>

\* the pools build_squad is called with: the roster and the roster without some
\* players
AttackIds == {Roster[i].player_id : i \in {j \in 1..Len(Roster) : Roster[j].position \in {"MID", "FWD"}}}
NoShowIds == {Roster[i].player_id : i \in {j \in 1..Len(Roster) : Roster[j].chance_of_playing >= MinChance}}
DropSets == {{}, {9}, {19}, {9, 10}, AttackIds, NoShowIds}

Keep(drop) == LET kept(p) == p.player_id \notin drop IN SelectSeq(Roster, kept)

Pools == {Keep(drop) : drop \in DropSets}

Budgets == {DefaultBudget, TightBudget}

----------------------------------------------------------------------------
(* Sequence helpers *)

Range(s) == {s[i] : i \in 1..Len(s)}

RECURSIVE SumPrice(_)
SumPrice(s) == IF s = <<>> THEN 0 ELSE Head(s).price + SumPrice(Tail(s))

Get(d, k) == IF k \in DOMAIN d THEN d[k] ELSE 0

Bump(d, k) == [x \in DOMAIN d \cup {k} |-> IF x = k THEN Get(d, k) + 1 ELSE d[x]]

----------------------------------------------------------------------------
(* CentralCache *)

\* f"squad_{self.budget}_{len(all_players)}"
SquadKey(b, players) == <<"squad", b, Len(players)>>

CacheLiveInclusive(c, key, t) == key \in DOMAIN c /\ t - c[key].timestamp <= CacheTimeout

CacheLive(c, key, t) == key \in DOMAIN c /\ t - c[key].timestamp < CacheTimeout

\* CentralCache.get: the data of a live entry, None otherwise
CacheGet(c, key, t) == IF CacheLive(c, key, t) THEN Some(c[key].data) ELSE None

\* the map after CentralCache.get: an expired entry is deleted
CacheAfterGet(c, key, t) ==
    IF key \in DOMAIN c /\ ~(t - c[key].timestamp < CacheTimeout)
    THEN [k \in DOMAIN c \ {key} |-> c[k]]
    ELSE c

CacheSet(c, key, value, t) ==
    [k \in DOMAIN c \cup {key} |->
        IF k = key THEN [timestamp |-> t, data |-> value] ELSE c[k]]

\* CentralCache.clear
CacheClear(c) == <<>>

\* Keyword arguments are a sequence of <<name, value>> pairs in the order they
\* were passed (kwargs.items()), names distinct. KwNames lists the names in the
\* order in which Python's string comparison puts them.
KwNames == <<"gameweek", "team_id">>

NameRank(name) == CHOOSE i \in 1..Len(KwNames) : KwNames[i] = name

ItemBefore(x, y) == NameRank(x[1]) < NameRank(y[1])

InsertItem(sorted, x) ==
    LET before == {i \in 1..Len(sorted) : ~ItemBefore(x, sorted[i])}
        n == Cardinality(before)
    IN  SubSeq(sorted, 1, n) \o <<x>> \o SubSeq(sorted, n + 1, Len(sorted))

UnsortedItems(items) == items

\* sorted(kwargs.items())
RECURSIVE SortedItems(_)
SortedItems(items) ==
    IF items = <<>> THEN <<>>
    ELSE InsertItem(SortedItems(SubSeq(items, 1, Len(items) - 1)), items[Len(items)])

\* CentralCache.make_key: the md5 of str(args) + str(sorted(kwargs.items())), here
\* the pair of the arguments and the sorted items
MakeKey(args, kwargs) == <<args, SortedItems(kwargs)>>

----------------------------------------------------------------------------
(* UnifiedSquadBuilder: the pure parts *)

to_dict(p) ==
    [player_id |-> p.player_id, position |-> p.position, team_name |-> p.team_name,
     price |-> p.price, total_points |-> p.total_points,
     momentum_score |-> p.momentum_score, chance_of_playing |-> p.chance_of_playing]

ToDicts(s) == [i \in 1..Len(s) |-> to_dict(s[i])]

EligibleAnyChance(p) ==
    /\ p.position \in PositionSet
    /\ p.price > 0

Eligible(p) ==
    /\ p.position \in PositionSet
    /\ p.chance_of_playing # NoChance
    /\ p.chance_of_playing >= MinChance
    /\ p.price > 0

GroupByPosition(players) ==
    [pos \in PositionSet |->
        LET member(p) == Eligible(p) /\ p.position = pos IN SelectSeq(players, member)]

\* key(a) < key(b) for key = momentum_score / max(price, 4.0), cross-multiplied
RatioLess(a, b) ==
    a.momentum_score * Max(b.price, PriceFloor) < b.momentum_score * Max(a.price, PriceFloor)

\* sorted(..., reverse=True) is stable: p goes behind every element whose key is
\* not smaller than its own
InsertRanked(ranked, p) ==
    LET before == {k \in 1..Len(ranked) : RatioLess(ranked[k], p)}
        at == IF before = {} THEN Len(ranked) + 1
              ELSE CHOOSE k \in before : \A j \in before : k <= j
    IN  SubSeq(ranked, 1, at - 1) \o <<p>> \o SubSeq(ranked, at, Len(ranked))

RECURSIVE SortFrom(_, _, _)
SortFrom(players, i, ranked) ==
    IF i > Len(players) THEN ranked
    ELSE SortFrom(players, i + 1, InsertRanked(ranked, players[i]))

SortPlayers(players) == SortFrom(players, 1, <<>>)

TeamFullAtTwo(used, p) == Get(used, p.team_name) >= TeamCap - 1

\* used_teams.get(team, 0) >= 3
TeamFull(used, p) == Get(used, p.team_name) >= TeamCap

OverBudgetAlone(selected, p, remaining_budget) == p.price > remaining_budget

OverBudget(selected, p, remaining_budget) ==
    SumPrice(selected) + p.price > remaining_budget

RECURSIVE GreedyFill(_, _, _, _, _, _)
GreedyFill(players, i, count, remaining_budget, selected, used) ==
    IF i > Len(players) \/ Len(selected) >= count
    THEN [selected |-> selected, used_teams |-> used]
    ELSE IF TeamFull(used, players[i]) \/ OverBudget(selected, players[i], remaining_budget)
    THEN GreedyFill(players, i + 1, count, remaining_budget, selected, used)
    ELSE GreedyFill(players, i + 1, count, remaining_budget,
                    Append(selected, players[i]), Bump(used, players[i].team_name))

\* min(remaining, key=price): the first element of minimal price
RECURSIVE Cheapest(_)
Cheapest(s) ==
    IF Len(s) = 1 THEN s[1]
    ELSE LET rest == Cheapest(Tail(s)) IN
         IF Head(s).price <= rest.price THEN Head(s) ELSE rest

RepairFits(selected, p, remaining_budget) ==
    SumPrice(selected) + p.price <= remaining_budget

RECURSIVE RepairFill(_, _, _, _, _, _)
RepairFill(players, count, remaining_budget, selected, used, repaired) ==
    LET stop == [selected |-> selected, used_teams |-> used, repaired |-> repaired]
        notSelected(p) == p \notin Range(selected)
        remaining == SelectSeq(players, notSelected)
    IN  IF ~(Len(selected) < count /\ players # <<>>) THEN stop
        ELSE IF remaining = <<>> THEN stop
        ELSE IF RepairFits(selected, Cheapest(remaining), remaining_budget)
        THEN RepairFill(players, count, remaining_budget,
                        Append(selected, Cheapest(remaining)),
                        Bump(used, Cheapest(remaining).team_name),
                        Append(repaired, Cheapest(remaining)))
        ELSE stop

SelectPlayers(players, count, remaining_budget, used) ==
    LET g == GreedyFill(players, 1, count, remaining_budget, <<>>, used)
    IN  RepairFill(players, count, remaining_budget, g.selected, g.used_teams, <<>>)

BenchCandidatesAll(position_players, xi) == position_players

\* [p for p in players_by_position[position] if p not in starting_xi]
BenchCandidates(position_players, xi) ==
    LET free(p) == p \notin Range(xi) IN SelectSeq(position_players, free)

CaptainKeyMomentumOnly(p) == p.momentum_score

\* momentum_score + total_points / 200.0, times 200 (momentum is in hundredths)
CaptainKey(p) == 2 * p.momentum_score + p.total_points

MomentumKey(p) == p.momentum_score

\* max(s, key=...): the index of the first element of maximal key
RECURSIVE MaxFrom(_, _, _)
MaxFrom(keys, i, best) ==
    IF i > Len(keys) THEN best
    ELSE MaxFrom(keys, i + 1, IF keys[i] > keys[best] THEN i ELSE best)

Attacking(players) ==
    LET att(p) == p.position \in {"MID", "FWD"} IN SelectSeq(players, att)

SelectCaptainFirst(players) ==
    LET attacking == Attacking(players) IN
    IF attacking # <<>>
    THEN Some(attacking[MaxFrom([i \in 1..Len(attacking) |-> CaptainKey(attacking[i])], 2, 1)])
    ELSE IF players # <<>> THEN Some(players[1])
    ELSE None

SelectCaptain(players) ==
    LET attacking == Attacking(players) IN
    IF attacking # <<>>
    THEN Some(attacking[MaxFrom([i \in 1..Len(attacking) |-> CaptainKey(attacking[i])], 2, 1)])
    ELSE IF players # <<>>
    THEN Some(players[MaxFrom([i \in 1..Len(players) |-> MomentumKey(players[i])], 2, 1)])
    ELSE None

TeamCounts(squad) ==
    [t \in {squad[i].team_name : i \in 1..Len(squad)} |->
        Cardinality({i \in 1..Len(squad) : squad[i].team_name = t})]

PositionCounts(squad) ==
    [pos \in PositionSet |-> Cardinality({i \in 1..Len(squad) : squad[i].position = pos})]

ValidateSquadNoTeamCap(squad) ==
    IF Len(squad) # SquadSize THEN FALSE ELSE PositionCounts(squad) = RequiredCounts

ValidateSquad(squad) ==
    IF Len(squad) # SquadSize THEN FALSE
    ELSE /\ PositionCounts(squad) = RequiredCounts
         /\ \A t \in DOMAIN TeamCounts(squad) : TeamCounts(squad)[t] <= TeamCap

----------------------------------------------------------------------------
(* UnifiedSquadBuilder.build_squad, one step per _select_players call *)

TickStep == CacheTimeout \div 2

StepRecord(phase, position, candidates, count, remaining_budget, r) ==
    [phase |-> phase, position |-> position, candidates |-> candidates,
     count |-> count, budget |-> remaining_budget, used_before |-> used_teams,
     xi_before |-> starting_xi, bench_before |-> bench,
     selected |-> r.selected, repaired |-> r.repaired]

\* build_squad up to the cache lookup, on a hit: the cached squad is returned
BuildSquadCached(players, b) ==
    LET key == SquadKey(b, players)
    IN  /\ pc = "idle"
        /\ calls < MaxCalls
        /\ CacheGet(cache, key, now) # None
        /\ result' = CacheGet(cache, key, now)
        /\ cache' = CacheAfterGet(cache, key, now)
        /\ all_players' = players
        /\ budget' = b
        /\ groups' = <<>>
        /\ starting_xi' = <<>>
        /\ bench' = <<>>
        /\ total_cost' = 0
        /\ used_teams' = <<>>
        /\ steps' = <<>>
        /\ idx' = 0
        /\ calls' = calls + 1
        /\ UNCHANGED <<pc, now, ticks>>
        /\ UNCHANGED <<fixtureVars, serviceVars>>

\* build_squad up to the first loop, on a miss
BuildSquadFresh(players, b) ==
    LET key == SquadKey(b, players)
    IN  /\ pc = "idle"
        /\ calls < MaxCalls
        /\ CacheGet(cache, key, now) = None
        /\ cache' = CacheAfterGet(cache, key, now)
        /\ all_players' = players
        /\ budget' = b
        /\ groups' = GroupByPosition(players)
        /\ starting_xi' = <<>>
        /\ bench' = <<>>
        /\ total_cost' = 0
        /\ used_teams' = <<>>
        /\ steps' = <<>>
        /\ idx' = 0
        /\ result' = None
        /\ pc' = "xi"
        /\ calls' = calls + 1
        /\ UNCHANGED <<now, ticks>>
        /\ UNCHANGED <<fixtureVars, serviceVars>>

\* one iteration of the loop over self.formation
SelectStartingXI ==
    LET position == Positions[idx + 1]
        position_players == SortPlayers(groups[position])
        r == SelectPlayers(position_players, formation[position],
                           budget - total_cost, used_teams)
    IN  /\ pc = "xi"
        /\ starting_xi' = starting_xi \o r.selected
        /\ total_cost' = total_cost + SumPrice(r.selected)
        /\ used_teams' = r.used_teams
        /\ steps' = Append(steps, StepRecord("xi", position, position_players,
                                              formation[position], budget - total_cost, r))
        /\ idx' = IF idx + 1 = Len(Positions) THEN 0 ELSE idx + 1
        /\ pc' = IF idx + 1 = Len(Positions) THEN "bench" ELSE "xi"
        /\ UNCHANGED <<cache, now, ticks, all_players, budget, groups, bench, result, calls>>
        /\ UNCHANGED <<fixtureVars, serviceVars>>

\* one iteration of the loop over self.bench_formation
SelectBench ==
    LET position == Positions[idx + 1]
        remaining_players == BenchCandidates(groups[position], starting_xi)
        r == SelectPlayers(remaining_players, bench_formation[position],
                           budget - total_cost, used_teams)
    IN  /\ pc = "bench"
        /\ bench' = bench \o r.selected
        /\ total_cost' = total_cost + SumPrice(r.selected)
        /\ used_teams' = r.used_teams
        /\ steps' = Append(steps, StepRecord("bench", position, remaining_players,
                                              bench_formation[position], budget - total_cost, r))
        /\ idx' = IF idx + 1 = Len(Positions) THEN 0 ELSE idx + 1
        /\ pc' = IF idx + 1 = Len(Positions) THEN "finish" ELSE "bench"
        /\ UNCHANGED <<cache, now, ticks, all_players, budget, groups, starting_xi,
                       result, calls>>
        /\ UNCHANGED <<fixtureVars, serviceVars>>

\* captain, validity, cache.set and return
FinishSquad ==
    LET squad == [starting_xi |-> ToDicts(starting_xi),
                  bench |-> ToDicts(bench),
                  captain |-> IF SelectCaptain(starting_xi) = None THEN None
                              ELSE Some(to_dict(SelectCaptain(starting_xi)[1])),
                  total_cost |-> total_cost,
                  formation |-> "4-4-2",
                  valid |-> ValidateSquad(starting_xi \o bench)]
    IN  /\ pc = "finish"
        /\ cache' = CacheSet(cache, SquadKey(budget, all_players), squad, now)
        /\ result' = Some(squad)
        /\ pc' = "idle"
        /\ UNCHANGED <<now, ticks, all_players, budget, groups, idx, starting_xi, bench,
                       total_cost, used_teams, steps, calls>>
        /\ UNCHANGED <<fixtureVars, serviceVars>>

\* time passes between two calls (a build itself takes no time on this clock)
Tick ==
    /\ pc = "idle"
    /\ ticks < MaxTicks
    /\ now' = now + TickStep
    /\ ticks' = ticks + 1
    /\ UNCHANGED <<squadVars, serviceVars>>
    /\ UNCHANGED <<fixtureVars, serviceVars>>

vars == <<cache, now, pc, all_players, budget, groups, idx, starting_xi, bench,
          total_cost, used_teams, steps, result, calls, ticks, fixtures_df,
          teams_lookup, current_gameweek, smart_cache, last_single, last_batch, ops,
          last_stats, single_log, last_op, prev_adjustment, last_adjustment,
          rng_draws, scorings, requests, last_request, first_scored>>

\* no squad has been requested
SquadInit ==
    /\ cache = <<>>
    /\ pc = "idle"
    /\ all_players = <<>>
    /\ budget = DefaultBudget
    /\ groups = <<>>
    /\ idx = 0
    /\ starting_xi = <<>>
    /\ bench = <<>>
    /\ total_cost = 0
    /\ used_teams = <<>>
    /\ steps = <<>>
    /\ result = None
    /\ calls = 0

\* a FixtureAnalyzer over no fixtures and no teams
NoFixtureInit ==
    /\ fixtures_df = <<>>
    /\ teams_lookup = <<>>
    /\ current_gameweek = 1
    /\ smart_cache = [fixtures |-> <<>>, teams |-> <<>>, batch_analysis |-> <<>>,
                      gameweek_cache |-> <<>>, last_cache_clean |-> 0]
    /\ last_single = None
    /\ last_batch = None
    /\ ops = 0
    /\ last_stats = None
    /\ single_log = <<>>

\* no CentralCache call and no ownership adjustment has been made
\* the generator has just been seeded and no player has been scored
EngineInit ==
    /\ rng_draws = 0
    /\ scorings = 0
    /\ requests = 0
    /\ last_request = None
    /\ first_scored = <<>>

ServiceInit ==
    /\ last_op = None
    /\ prev_adjustment = None
    /\ last_adjustment = None
    /\ EngineInit

Init ==
    /\ now = 0
    /\ ticks = 0
    /\ SquadInit
    /\ NoFixtureInit
    /\ ServiceInit

Next ==
    \/ \E players \in Pools, b \in Budgets : BuildSquadCached(players, b)
    \/ \E players \in Pools, b \in Budgets : BuildSquadFresh(players, b)
    \/ SelectStartingXI
    \/ SelectBench
    \/ FinishSquad
    \/ Tick

Spec == Init /\ [][Next]_vars

----------------------------------------------------------------------------
(* Properties of build_squad *)

Returned == pc = "idle" /\ result # None
FreshReturn == Returned /\ steps # <<>>
Squad == result[1].starting_xi \o result[1].bench
ReturnedXI == result[1].starting_xi

EligibleAt(players, pos) ==
    Cardinality({i \in 1..Len(players) : Eligible(players[i]) /\ players[i].position = pos})
EligibleTeams(players) ==
    {players[i].team_name : i \in {j \in 1..Len(players) : Eligible(players[j])}}
EligibleTotal(players) == Cardinality({i \in 1..Len(players) : Eligible(players[i])})
TeamSize(squad, t) == Cardinality({i \in 1..Len(squad) : squad[i].team_name = t})
PositionSize(squad, pos) == Cardinality({i \in 1..Len(squad) : squad[i].position = pos})
IsAttacker(p) == p.position \in {"MID", "FWD"}
HasAttacker(squad) == \E i \in 1..Len(squad) : IsAttacker(squad[i])

\* the precondition of C1: 15 eligible players, all four positions, 6 teams
LargePool(players) ==
    /\ EligibleTotal(players) >= SquadSize
    /\ \A pos \in PositionSet : EligibleAt(players, pos) >= 1
    /\ Cardinality(EligibleTeams(players)) >= 6

\* C1 (as claimed): a squad built from a pool of at least 15 eligible players over
\* all four positions and at least 6 teams never has more than 3 players of one
\* team_name.
C1_TeamCap ==
    (FreshReturn /\ LargePool(all_players)) =>
        \A i \in 1..Len(Squad) : TeamSize(Squad, Squad[i].team_name) <= TeamCap

\* C2: the prices of the players selected so far never sum to more than the
\* builder's budget, total_cost is that sum at every step, and the returned squad
\* costs no more than the budget.
C2_WithinBudget ==
    /\ total_cost = SumPrice(starting_xi \o bench)
    /\ total_cost <= budget
    /\ Returned => SumPrice(Squad) <= budget

C2_Witness ==
    /\ FreshReturn
    /\ budget = TightBudget
    /\ Len(Squad) < SquadSize
    /\ SumPrice(Squad) > budget - PriceFloor

\* C3 (as claimed): the squad returned for a pool contains only players of that
\* pool, whatever calls came before.
C3_FromRequestPool ==
    Returned =>
        \A i \in 1..Len(Squad) : \E j \in 1..Len(all_players) : to_dict(all_players[j]) = Squad[i]

\* C4: the valid flag of the returned squad is true exactly when the squad has 15
\* players, 2 GK, 5 DEF, 5 MID, 3 FWD, and no team_name more than 3 times; an
\* invalid squad is returned like a valid one.
C4_ValidFlag ==
    Returned =>
        (result[1].valid <=>
            /\ Len(Squad) = 15
            /\ PositionSize(Squad, "GK") = 2
            /\ PositionSize(Squad, "DEF") = 5
            /\ PositionSize(Squad, "MID") = 5
            /\ PositionSize(Squad, "FWD") = 3
            /\ \A i \in 1..Len(Squad) : TeamSize(Squad, Squad[i].team_name) <= 3)

\* a valid squad and an invalid squad of fewer than 15 players have both been returned
C4_Witness ==
    /\ Returned
    /\ \E k1, k2 \in DOMAIN cache :
        /\ cache[k1].data.valid
        /\ ~cache[k2].data.valid
        /\ Len(cache[k2].data.starting_xi) + Len(cache[k2].data.bench) < 15

\* C5 (as claimed): when the pool has fewer eligible players at a position than the
\* squad requires there, the returned squad is invalid and has at most that many
\* players at the position.
C5_Shortfall ==
    Returned =>
        \A pos \in PositionSet :
            EligibleAt(all_players, pos) < RequiredCounts[pos] =>
                /\ ~result[1].valid
                /\ PositionSize(Squad, pos) <= EligibleAt(all_players, pos)

\* the same for a squad that was built, not taken from the cache
C5_ShortfallFresh == FreshReturn => C5_Shortfall

RECURSIVE SelectedUpTo(_, _)
SelectedUpTo(history, n) ==
    IF n = 0 THEN <<>> ELSE SelectedUpTo(history, n - 1) \o history[n].selected

\* C6: the four starting-XI groups are selected, in formation order, before any
\* bench group; a bench group's candidates and the bench exclude the starting XI;
\* and the budget and team counts a bench selection sees are those left by the
\* complete starting XI and the bench groups before it.
C6_XIBeforeBench ==
    /\ (pc \in {"bench", "finish"} \/ FreshReturn) => Len(steps) >= Len(Positions)
    /\ \A i \in 1..Len(steps) :
        /\ steps[i].phase = (IF i <= Len(Positions) THEN "xi" ELSE "bench")
        /\ steps[i].position = Positions[((i - 1) % Len(Positions)) + 1]
        /\ steps[i].phase = "bench" =>
            /\ steps[i].xi_before = SelectedUpTo(steps, Len(Positions))
            /\ Range(steps[i].candidates) \cap Range(steps[i].xi_before) = {}
            /\ steps[i].budget = budget - SumPrice(SelectedUpTo(steps, i - 1))
            /\ \A p \in Range(Roster) :
                Get(steps[i].used_before, p.team_name)
                    = TeamSize(SelectedUpTo(steps, i - 1), p.team_name)
    /\ Range(bench) \cap Range(starting_xi) = {}

C6_Witness == FreshReturn /\ Len(result[1].bench) = 4 /\ Len(ReturnedXI) = 11

\* C7 (as claimed): every position group, starting XI and bench, hands the greedy
\* fill its candidates in descending order of momentum / max(price, 4.0).
C7_RankedCandidates ==
    \A i \in 1..Len(steps) :
        \A a, b \in 1..Len(steps[i].candidates) :
            a < b => ~RatioLess(steps[i].candidates[a], steps[i].candidates[b])

\* C8: when the starting XI has a MID or FWD, the captain is the first MID or FWD
\* of the starting XI whose momentum_score + total_points / 200 is maximal.
C8_AttackingCaptain ==
    (Returned /\ HasAttacker(ReturnedXI)) =>
        /\ result[1].captain # None
        /\ \E i \in 1..Len(ReturnedXI) :
            /\ ReturnedXI[i] = result[1].captain[1]
            /\ IsAttacker(ReturnedXI[i])
            /\ \A j \in 1..Len(ReturnedXI) :
                IsAttacker(ReturnedXI[j]) =>
                    /\ 200 * ReturnedXI[j].momentum_score + 100 * ReturnedXI[j].total_points
                        <= 200 * ReturnedXI[i].momentum_score + 100 * ReturnedXI[i].total_points
                    /\ j < i =>
                        200 * ReturnedXI[j].momentum_score + 100 * ReturnedXI[j].total_points
                            < 200 * ReturnedXI[i].momentum_score + 100 * ReturnedXI[i].total_points

\* the captain is not the starter of highest momentum, and another starter ties with it
C8_Witness ==
    /\ FreshReturn
    /\ HasAttacker(ReturnedXI)
    /\ \E j \in 1..Len(ReturnedXI) :
        ReturnedXI[j].momentum_score > result[1].captain[1].momentum_score
    /\ \E j \in 1..Len(ReturnedXI) :
        /\ ReturnedXI[j] # result[1].captain[1]
        /\ IsAttacker(ReturnedXI[j])
        /\ CaptainKey(ReturnedXI[j]) = CaptainKey(result[1].captain[1])

\* C9 (as claimed): with no MID or FWD in the starting XI the captain has maximal
\* momentum_score over starting XI and bench together; an empty squad has no captain.
C9_WholeSquadCaptain ==
    (Returned /\ ~HasAttacker(ReturnedXI)) =>
        IF Squad = <<>> THEN result[1].captain = None
        ELSE /\ result[1].captain # None
             /\ \A j \in 1..Len(Squad) :
                 Squad[j].momentum_score <= result[1].captain[1].momentum_score

\* C9 (amended): with no MID or FWD in the starting XI the captain is the first
\* player of maximal momentum_score of the starting XI; an empty starting XI means
\* an empty squad, and then there is no captain.
C9_StartingXICaptain ==
    (Returned /\ ~HasAttacker(ReturnedXI)) =>
        IF ReturnedXI = <<>> THEN result[1].captain = None /\ Squad = <<>>
        ELSE /\ result[1].captain # None
             /\ \E i \in 1..Len(ReturnedXI) :
                 /\ ReturnedXI[i] = result[1].captain[1]
                 /\ \A j \in 1..Len(ReturnedXI) :
                     /\ ReturnedXI[j].momentum_score <= ReturnedXI[i].momentum_score
                     /\ j < i => ReturnedXI[j].momentum_score < ReturnedXI[i].momentum_score

\* a starting XI of GK and DEF only, with a bench player of higher momentum than
\* the captain, after a call that returned an empty squad
C9_Witness ==
    /\ FreshReturn
    /\ ReturnedXI # <<>>
    /\ ~HasAttacker(ReturnedXI)
    /\ \E j \in 1..Len(Squad) :
        Squad[j].momentum_score > result[1].captain[1].momentum_score
    /\ \E k \in DOMAIN cache :
        cache[k].data.starting_xi = <<>> /\ cache[k].data.captain = None

----------------------------------------------------------------------------
(* FixtureAnalyzer: data *)

\* Scores are in thousandths (0.75 is 750).

FixtureTeams == {1, 2, 3}
Windows == {1, 2, 3}

\* the 1-5 difficulty of a fixture is the opponent's rating, one more away from home
Rating == <<1, 2, 4>>

Fixture(e, h, a) ==
    [event |-> e, team_h |-> h, team_a |-> a,
     team_h_difficulty |-> Rating[a], team_a_difficulty |-> Rating[h] + 1]

\* the season's fixtures, sorted by event as _clean_fixtures_data leaves them:
\* team 1 plays teams 2 and 3, twice in event 1; team 3 is in no teams file
Schedule == <<Fixture(1, 1, 2), Fixture(1, 3, 1), Fixture(2, 1, 3), Fixture(2, 2, 1)>>

\* the fixtures file holds a part of the schedule: nothing, one fixture, the home
\* fixtures of team 1, the second event only, or all of it
KeptSets == {{}, {2}, {1, 3}, {3, 4}, {1, 2, 3, 4}}

RECURSIVE SubSchedule(_, _)
SubSchedule(kept, i) ==
    IF i > Len(Schedule) THEN <<>>
    ELSE IF i \in kept THEN <<Schedule[i]>> \o SubSchedule(kept, i + 1)
    ELSE SubSchedule(kept, i + 1)

\* a longer season in which team 1 plays twice in each of three events
LongSchedule == Schedule \o <<Fixture(3, 1, 2), Fixture(3, 3, 1)>>

FixtureTables == {SubSchedule(kept, 1) : kept \in KeptSets} \cup {LongSchedule}

TeamData(n) == [name |-> n]

Lookups == {<<>>, (1 :> TeamData("Alpha")) @@ (2 :> TeamData("Beta"))}

\* _detect_current_gameweek: the first event of the (unfinished) rows; without a
\* 'finished' column the lookup of the column raises and the result is 1
DetectCurrentGameweek(df, has_finished_column) ==
    IF df = <<>> THEN 1
    ELSE IF has_finished_column THEN df[1].event
    ELSE 1

----------------------------------------------------------------------------
(* FixtureAnalyzer: cache *)

\* _generate_cache_key: the md5 of str(args) + str(sorted(kwargs.items())), here
\* the pair of the arguments and the sorted items
GenerateCacheKeyFrom(args, kwargs) == <<args, SortedItems(kwargs)>>

\* the key of three positional arguments
GenerateCacheKey(a, b, c) == GenerateCacheKeyFrom(<<a, b, c>>, <<>>)

IsCacheValidInclusive(store, key, t) ==
    key \in DOMAIN store /\ t - store[key].timestamp <= FixtureTimeout

IsCacheValid(store, key, t) ==
    key \in DOMAIN store /\ t - store[key].timestamp < FixtureTimeout

GetFromCache(store, key, t) ==
    IF IsCacheValid(store, key, t) THEN Some(store[key].data) ELSE None

\* time.time() - timestamp of the entry a lookup finds, NoEntry when there is none
NoEntry == 0 - 1

EntryAge(store, key, t) ==
    IF key \in DOMAIN store THEN t - store[key].timestamp ELSE NoEntry

StoreInCache(store, key, value, t) ==
    [k \in DOMAIN store \cup {key} |->
        IF k = key THEN [timestamp |-> t, data |-> value] ELSE store[k]]

DropExpired(store, t) ==
    [k \in {x \in DOMAIN store : ~(t - store[x].timestamp > FixtureTimeout)} |-> store[k]]

CleanExpiredCache(sc, t) ==
    IF t - sc.last_cache_clean < CleanInterval THEN sc
    ELSE [fixtures |-> DropExpired(sc.fixtures, t),
          teams |-> DropExpired(sc.teams, t),
          batch_analysis |-> DropExpired(sc.batch_analysis, t),
          gameweek_cache |-> DropExpired(sc.gameweek_cache, t),
          last_cache_clean |-> t]

----------------------------------------------------------------------------
(* FixtureAnalyzer: analysis *)

Min(a, b) == IF a <= b THEN a ELSE b

\* round(1000 * a / b): Python rounds an exact half to the even neighbour
RoundDiv(a, b) ==
    LET q == a \div b
        r == a % b
    IN  IF 2 * r < b THEN q
        ELSE IF 2 * r > b THEN q + 1
        ELSE IF q % 2 = 0 THEN q ELSE q + 1

NormalizedQuartersUnclamped(difficulty) == 6 - difficulty

\* max(0, min(1, (6 - difficulty) / 4)), in quarters
NormalizedQuarters(difficulty) == Max(0, Min(4, 6 - difficulty))

TeamName(lookup, team_id) ==
    IF team_id \in DOMAIN lookup THEN lookup[team_id].name ELSE "Unknown"

Involves(f, team_id) == f.team_h = team_id \/ f.team_a = team_id

InWindowInclusive(f, cgw, gameweeks_ahead) ==
    f.event >= cgw /\ f.event <= cgw + gameweeks_ahead

InWindow(f, cgw, gameweeks_ahead) == f.event >= cgw /\ f.event < cgw + gameweeks_ahead

FixtureInfo(f, team_id, lookup) ==
    LET is_home == f.team_h = team_id
        opponent_id == IF is_home THEN f.team_a ELSE f.team_h
        difficulty == IF is_home THEN f.team_h_difficulty ELSE f.team_a_difficulty
    IN  [gameweek |-> f.event,
         opponent_id |-> opponent_id,
         opponent_name |-> TeamName(lookup, opponent_id),
         is_home |-> is_home,
         difficulty_raw |-> difficulty,
         difficulty_normalized |-> 250 * NormalizedQuarters(difficulty),
         venue |-> IF is_home THEN "H" ELSE "A"]

RECURSIVE SumQuarters(_)
SumQuarters(infos) ==
    IF infos = <<>> THEN 0
    ELSE NormalizedQuarters(Head(infos).difficulty_raw) + SumQuarters(Tail(infos))

\* the fixtures played in events with more than one fixture
DoubleGameweekFixtures(team_fixtures) ==
    Cardinality({i \in 1..Len(team_fixtures) :
        Cardinality({j \in 1..Len(team_fixtures) :
            team_fixtures[j].event = team_fixtures[i].event}) > 1})

\* len(gameweek_counts[gameweek_counts > 1])
DoubleGameweeks(team_fixtures) ==
    Cardinality({e \in {team_fixtures[i].event : i \in 1..Len(team_fixtures)} :
        Cardinality({i \in 1..Len(team_fixtures) : team_fixtures[i].event = e}) > 1})

AnalyzeTeamFixturesOptimized(team_id, team_fixtures, gameweeks_ahead, lookup) ==
    LET infos == [i \in 1..Len(team_fixtures) |-> FixtureInfo(team_fixtures[i], team_id, lookup)]
        num_fixtures == Len(infos)
        home_games == Cardinality({i \in 1..Len(infos) : infos[i].is_home})
        double_gameweeks == DoubleGameweeks(team_fixtures)
        avg_difficulty == RoundDiv(250 * SumQuarters(infos), Max(1, num_fixtures))
    IN  [team_id |-> team_id,
         team_name |-> TeamName(lookup, team_id),
         gameweeks_analyzed |-> gameweeks_ahead,
         fixtures_count |-> num_fixtures,
         upcoming_fixtures |-> infos,
         avg_difficulty |-> avg_difficulty,
         home_games_ratio |-> RoundDiv(1000 * home_games, Max(1, num_fixtures)),
         double_gameweek_count |-> double_gameweeks,
         double_gameweek_bonus |-> Min(300, double_gameweeks * 150),
         fixture_difficulty_score |-> avg_difficulty]

EmptyFixtureResultZero(team_id, lookup) ==
    [team_id |-> team_id,
     team_name |-> TeamName(lookup, team_id),
     gameweeks_analyzed |-> 0,
     fixtures_count |-> 0,
     upcoming_fixtures |-> <<>>,
     avg_difficulty |-> 0,
     home_games_ratio |-> 0,
     double_gameweek_count |-> 0,
     double_gameweek_bonus |-> 0,
     fixture_difficulty_score |-> 0]

EmptyFixtureResult(team_id, lookup) ==
    [team_id |-> team_id,
     team_name |-> TeamName(lookup, team_id),
     gameweeks_analyzed |-> 0,
     fixtures_count |-> 0,
     upcoming_fixtures |-> <<>>,
     avg_difficulty |-> 500,
     home_games_ratio |-> 500,
     double_gameweek_count |-> 0,
     double_gameweek_bonus |-> 0,
     fixture_difficulty_score |-> 500]

\* analyze_team_fixtures after a cache miss: what it computes
ComputeTeamAnalysis(df, lookup, cgw, team_id, gameweeks_ahead) ==
    LET mine(f) == InWindow(f, cgw, gameweeks_ahead) /\ Involves(f, team_id)
        team_fixtures == SelectSeq(df, mine)
    IN  IF df = <<>> THEN EmptyFixtureResult(team_id, lookup)
        ELSE IF team_fixtures = <<>> THEN EmptyFixtureResult(team_id, lookup)
        ELSE AnalyzeTeamFixturesOptimized(team_id, team_fixtures, gameweeks_ahead, lookup)

\* the loop of batch_analyze_all_teams over teams_lookup
BatchTeamAnalyses(relevant_fixtures, lookup, gameweeks_ahead) ==
    [team_id \in DOMAIN lookup |->
        LET mine(f) == Involves(f, team_id)
            team_fixtures == SelectSeq(relevant_fixtures, mine)
        IN  IF team_fixtures # <<>>
            THEN AnalyzeTeamFixturesOptimized(team_id, team_fixtures, gameweeks_ahead, lookup)
            ELSE EmptyFixtureResult(team_id, lookup)]

RelevantFixtures(df, cgw, gameweeks_ahead) ==
    LET relevant(f) == InWindow(f, cgw, gameweeks_ahead) IN SelectSeq(df, relevant)

\* batch_analyze_all_teams returns {} without storing anything
BatchReturnsEarly(df, lookup, cgw, gameweeks_ahead) ==
    \/ df = <<>>
    \/ DOMAIN lookup = {}
    \/ RelevantFixtures(df, cgw, gameweeks_ahead) = <<>>

----------------------------------------------------------------------------
(* FixtureAnalyzer: operations *)

FixtureTickStep == FixtureTimeout \div 2

\* the history of first results per (team, window)
Logged(log, team_id, gameweeks_ahead, value) ==
    IF <<team_id, gameweeks_ahead>> \in DOMAIN log THEN log
    ELSE (<<team_id, gameweeks_ahead>> :> value) @@ log

\* analyze_team_fixtures, served from the 'fixtures' cache
AnalyzeTeamFixturesCached(team_id, gameweeks_ahead) ==
    LET key == GenerateCacheKey(team_id, gameweeks_ahead, current_gameweek)
        cached_result == GetFromCache(smart_cache.fixtures, key, now)
    IN  /\ ops < MaxOps
        /\ cached_result # None
        /\ last_single' = Some([team_id |-> team_id, gameweeks_ahead |-> gameweeks_ahead,
                                value |-> cached_result[1], cached |-> TRUE,
                                age |-> EntryAge(smart_cache.fixtures, key, now)])
        /\ ops' = ops + 1
        /\ single_log' = Logged(single_log, team_id, gameweeks_ahead, cached_result[1])
        /\ UNCHANGED <<fixtures_df, teams_lookup, current_gameweek, smart_cache, last_batch>>
        /\ UNCHANGED last_stats
        /\ UNCHANGED <<now, ticks>>
        /\ UNCHANGED <<squadVars, serviceVars>>

\* analyze_team_fixtures, computed: clean the cache, analyse, store
AnalyzeTeamFixturesFresh(team_id, gameweeks_ahead) ==
    LET key == GenerateCacheKey(team_id, gameweeks_ahead, current_gameweek)
        cleaned == CleanExpiredCache(smart_cache, now)
        value == ComputeTeamAnalysis(fixtures_df, teams_lookup, current_gameweek,
                                     team_id, gameweeks_ahead)
    IN  /\ ops < MaxOps
        /\ GetFromCache(smart_cache.fixtures, key, now) = None
        /\ smart_cache' = [cleaned EXCEPT !.fixtures = StoreInCache(cleaned.fixtures, key, value, now)]
        /\ last_single' = Some([team_id |-> team_id, gameweeks_ahead |-> gameweeks_ahead,
                                value |-> value, cached |-> FALSE,
                                age |-> EntryAge(smart_cache.fixtures, key, now)])
        /\ ops' = ops + 1
        /\ single_log' = Logged(single_log, team_id, gameweeks_ahead, value)
        /\ UNCHANGED <<fixtures_df, teams_lookup, current_gameweek, last_batch, last_stats>>
        /\ UNCHANGED <<now, ticks>>
        /\ UNCHANGED <<squadVars, serviceVars>>

\* batch_analyze_all_teams, served from the 'batch_analysis' cache
BatchAnalyzeAllTeamsCached(gameweeks_ahead) ==
    LET key == GenerateCacheKey("batch_all", gameweeks_ahead, current_gameweek)
        cached_result == GetFromCache(smart_cache.batch_analysis, key, now)
    IN  /\ ops < MaxOps
        /\ cached_result # None
        /\ last_batch' = Some([gameweeks_ahead |-> gameweeks_ahead,
                               value |-> cached_result[1], cached |-> TRUE])
        /\ ops' = ops + 1
        /\ UNCHANGED <<fixtures_df, teams_lookup, current_gameweek, smart_cache, last_single>>
        /\ UNCHANGED <<last_stats, single_log>>
        /\ UNCHANGED <<now, ticks>>
        /\ UNCHANGED <<squadVars, serviceVars>>

\* batch_analyze_all_teams without fixtures in the window or without teams: {}
BatchAnalyzeAllTeamsEmpty(gameweeks_ahead) ==
    LET key == GenerateCacheKey("batch_all", gameweeks_ahead, current_gameweek)
    IN  /\ ops < MaxOps
        /\ GetFromCache(smart_cache.batch_analysis, key, now) = None
        /\ BatchReturnsEarly(fixtures_df, teams_lookup, current_gameweek, gameweeks_ahead)
        /\ last_batch' = Some([gameweeks_ahead |-> gameweeks_ahead,
                               value |-> <<>>, cached |-> FALSE])
        /\ ops' = ops + 1
        /\ UNCHANGED <<fixtures_df, teams_lookup, current_gameweek, smart_cache, last_single>>
        /\ UNCHANGED <<last_stats, single_log>>
        /\ UNCHANGED <<now, ticks>>
        /\ UNCHANGED <<squadVars, serviceVars>>

\* batch_analyze_all_teams, computed and stored
BatchAnalyzeAllTeamsFresh(gameweeks_ahead) ==
    LET key == GenerateCacheKey("batch_all", gameweeks_ahead, current_gameweek)
        team_analyses == BatchTeamAnalyses(
            RelevantFixtures(fixtures_df, current_gameweek, gameweeks_ahead),
            teams_lookup, gameweeks_ahead)
    IN  /\ ops < MaxOps
        /\ GetFromCache(smart_cache.batch_analysis, key, now) = None
        /\ ~BatchReturnsEarly(fixtures_df, teams_lookup, current_gameweek, gameweeks_ahead)
        /\ smart_cache' = [smart_cache EXCEPT
                !.batch_analysis = StoreInCache(smart_cache.batch_analysis, key, team_analyses, now)]
        /\ last_batch' = Some([gameweeks_ahead |-> gameweeks_ahead,
                               value |-> team_analyses, cached |-> FALSE])
        /\ ops' = ops + 1
        /\ UNCHANGED <<fixtures_df, teams_lookup, current_gameweek, last_single>>
        /\ UNCHANGED <<last_stats, single_log>>
        /\ UNCHANGED <<now, ticks>>
        /\ UNCHANGED <<squadVars, serviceVars>>

\* clear_cache: every partition is emptied
ClearCache ==
    /\ ops < MaxOps
    /\ smart_cache' = [smart_cache EXCEPT !.fixtures = <<>>, !.teams = <<>>,
                                          !.batch_analysis = <<>>, !.gameweek_cache = <<>>]
    /\ ops' = ops + 1
    /\ UNCHANGED <<fixtures_df, teams_lookup, current_gameweek, last_single, last_batch>>
    /\ UNCHANGED <<last_stats, single_log>>
    /\ UNCHANGED <<now, ticks>>
    /\ UNCHANGED <<squadVars, serviceVars>>

\* the sizes get_cache_statistics reports: len() of every partition
CacheStatistics(sc) ==
    LET fixtures_cache_size == Cardinality(DOMAIN sc.fixtures)
        teams_cache_size == Cardinality(DOMAIN sc.teams)
        batch_analysis_cache_size == Cardinality(DOMAIN sc.batch_analysis)
        gameweek_cache_cache_size == Cardinality(DOMAIN sc.gameweek_cache)
    IN  [fixtures_cache_size |-> fixtures_cache_size,
         teams_cache_size |-> teams_cache_size,
         batch_analysis_cache_size |-> batch_analysis_cache_size,
         gameweek_cache_cache_size |-> gameweek_cache_cache_size,
         total_cached_items |-> fixtures_cache_size + teams_cache_size
                                + batch_analysis_cache_size + gameweek_cache_cache_size]

\* get_cache_statistics
GetCacheStatistics ==
    /\ ops < MaxOps
    /\ last_stats' = Some(CacheStatistics(smart_cache))
    /\ ops' = ops + 1
    /\ UNCHANGED <<fixtures_df, teams_lookup, current_gameweek, smart_cache>>
    /\ UNCHANGED <<last_single, last_batch, single_log>>
    /\ UNCHANGED <<now, ticks>>
    /\ UNCHANGED <<squadVars, serviceVars>>

\* time passes between two calls
FixtureTick ==
    /\ ticks < MaxTicks
    /\ now' = now + FixtureTickStep
    /\ ticks' = ticks + 1
    /\ UNCHANGED <<fixtureVars, serviceVars>>
    /\ UNCHANGED <<squadVars, serviceVars>>

\* FixtureAnalyzer.__init__ over a fixtures file and a teams file
FixtureInit ==
    /\ now = 0
    /\ ticks = 0
    /\ SquadInit
    /\ ServiceInit
    /\ fixtures_df \in FixtureTables
    /\ teams_lookup \in Lookups
    /\ \E has_finished_column \in BOOLEAN :
        current_gameweek = DetectCurrentGameweek(fixtures_df, has_finished_column)
    /\ smart_cache = [fixtures |-> <<>>, teams |-> <<>>, batch_analysis |-> <<>>,
                      gameweek_cache |-> <<>>, last_cache_clean |-> 0]
    /\ last_single = None
    /\ last_batch = None
    /\ ops = 0
    /\ last_stats = None
    /\ single_log = <<>>

FixtureNext ==
    \/ \E t \in FixtureTeams, w \in Windows : AnalyzeTeamFixturesCached(t, w)
    \/ \E t \in FixtureTeams, w \in Windows : AnalyzeTeamFixturesFresh(t, w)
    \/ \E w \in Windows : BatchAnalyzeAllTeamsCached(w)
    \/ \E w \in Windows : BatchAnalyzeAllTeamsEmpty(w)
    \/ \E w \in Windows : BatchAnalyzeAllTeamsFresh(w)
    \/ ClearCache
    \/ GetCacheStatistics
    \/ FixtureTick

FixtureSpec == FixtureInit /\ [][FixtureNext]_vars

----------------------------------------------------------------------------
(* CentralCache: operations *)

\* the calls of a client of the cache: positional arguments, and keyword arguments
\* in either order
ArgLists == {<<>>, <<7>>}

TeamItem(v) == <<"team_id", v>>
GameweekItem == <<"gameweek", 5>>

KwargLists ==
    {<<>>, <<GameweekItem>>, <<TeamItem(1)>>,
     <<TeamItem(1), GameweekItem>>, <<GameweekItem, TeamItem(1)>>,
     <<TeamItem(2), GameweekItem>>, <<GameweekItem, TeamItem(2)>>}

\* the keys clients store under
CacheKeys ==
    {MakeKey(<<7>>, kwargs) :
        kwargs \in {<<GameweekItem>>, <<TeamItem(1), GameweekItem>>, <<GameweekItem, TeamItem(1)>>}}

CacheValues == {"x", "y"}

CacheOp(op, key, args, kwargs, value, before, age, returned) ==
    Some([op |-> op, key |-> key, args |-> args, kwargs |-> kwargs, value |-> value,
          before |-> before, age |-> age, returned |-> returned])

\* cache.set(key, value)
CentralCacheSet(key, value) ==
    /\ cache' = CacheSet(cache, key, value, now)
    /\ last_op' = CacheOp("set", key, <<>>, <<>>, value, None, NoEntry, None)
    /\ UNCHANGED <<now, ticks>>
    /\ UNCHANGED <<builderVars, fixtureVars, ownershipVars, engineVars>>

\* cache.get(key)
CentralCacheGet(key) ==
    /\ cache' = CacheAfterGet(cache, key, now)
    /\ last_op' = CacheOp("get", key, <<>>, <<>>, "",
                          IF key \in DOMAIN cache THEN Some(cache[key]) ELSE None,
                          EntryAge(cache, key, now), CacheGet(cache, key, now))
    /\ UNCHANGED <<now, ticks>>
    /\ UNCHANGED <<builderVars, fixtureVars, ownershipVars, engineVars>>

\* cache.clear()
CentralCacheClear ==
    /\ cache' = CacheClear(cache)
    /\ last_op' = CacheOp("clear", <<>>, <<>>, <<>>, "", None, NoEntry, None)
    /\ UNCHANGED <<now, ticks>>
    /\ UNCHANGED <<builderVars, fixtureVars, ownershipVars, engineVars>>

\* cache.make_key(*args, **kwargs)
CentralCacheMakeKey(args, kwargs) ==
    /\ last_op' = CacheOp("make_key", MakeKey(args, kwargs), args, kwargs, "",
                          None, NoEntry, None)
    /\ UNCHANGED <<cache, now, ticks>>
    /\ UNCHANGED <<builderVars, fixtureVars, ownershipVars, engineVars>>

\* FixtureAnalyzer._generate_cache_key(*args, **kwargs)
FixtureGenerateCacheKey(args, kwargs) ==
    /\ last_op' = CacheOp("generate_cache_key", GenerateCacheKeyFrom(args, kwargs),
                          args, kwargs, "", None, NoEntry, None)
    /\ UNCHANGED <<cache, now, ticks>>
    /\ UNCHANGED <<builderVars, fixtureVars, ownershipVars, engineVars>>

CacheNext ==
    \/ \E key \in CacheKeys, value \in CacheValues : CentralCacheSet(key, value)
    \/ \E key \in CacheKeys : CentralCacheGet(key)
    \/ CentralCacheClear
    \/ \E args \in ArgLists, kwargs \in KwargLists : CentralCacheMakeKey(args, kwargs)
    \/ \E args \in ArgLists, kwargs \in KwargLists : FixtureGenerateCacheKey(args, kwargs)
    \/ Tick

CacheSpec == Init /\ [][CacheNext]_vars

----------------------------------------------------------------------------
(* OwnershipWeights *)

\* Ownership is in tenths of a percent (50.0 is 500), base modifiers are in
\* thousandths (-0.12 is -120), position and gameweek multipliers in tenths (1.2 is
\* 12), final modifiers in hundred-thousandths (0.25 is 25000).

BracketNames == {"template", "popular", "medium", "differential", "contrarian"}

ownership_brackets ==
    ("template" :> [min |-> 500, modifier |-> 0 - 120, risk |-> "high"]) @@
    ("popular" :> [min |-> 300, modifier |-> 0 - 60, risk |-> "medium"]) @@
    ("medium" :> [min |-> 150, modifier |-> 0, risk |-> "low"]) @@
    ("differential" :> [min |-> 50, modifier |-> 80, risk |-> "medium"]) @@
    ("contrarian" :> [min |-> 0, modifier |-> 150, risk |-> "high"])

position_ownership_impact == ("GK" :> 6) @@ ("DEF" :> 8) @@ ("MID" :> 10) @@ ("FWD" :> 12)

gameweek_modifiers ==
    ("early_season" :> 8) @@ ("mid_season" :> 10) @@ ("run_in" :> 13) @@ ("final_stretch" :> 15)

GetOwnershipBracketExclusive(ownership_pct) ==
    IF ownership_pct > 500 THEN "template"
    ELSE IF ownership_pct > 300 THEN "popular"
    ELSE IF ownership_pct > 150 THEN "medium"
    ELSE IF ownership_pct > 50 THEN "differential"
    ELSE "contrarian"

GetOwnershipBracket(ownership_pct) ==
    IF ownership_pct >= 500 THEN "template"
    ELSE IF ownership_pct >= 300 THEN "popular"
    ELSE IF ownership_pct >= 150 THEN "medium"
    ELSE IF ownership_pct >= 50 THEN "differential"
    ELSE "contrarian"

GetGameweekMultiplier(gameweek) ==
    IF gameweek <= 6 THEN gameweek_modifiers["early_season"]
    ELSE IF gameweek <= 25 THEN gameweek_modifiers["mid_season"]
    ELSE IF gameweek <= 35 THEN gameweek_modifiers["run_in"]
    ELSE gameweek_modifiers["final_stretch"]

EveryBracket == BracketNames

\* the brackets whose modifier grows with the season
DifferentialBrackets == {"differential", "contrarian"}

ClampModifierUnbounded(final_modifier) == final_modifier

\* max(-0.2, min(0.25, final_modifier)), in hundred-thousandths
ClampModifier(final_modifier) == Max(0 - 20000, Min(25000, final_modifier))

\* final_modifier before the clamp
RawModifier(ownership_pct, position, gameweek) ==
    LET bracket == GetOwnershipBracket(ownership_pct)
        base_modifier == ownership_brackets[bracket].modifier
        position_multiplier ==
            IF position \in DOMAIN position_ownership_impact
            THEN position_ownership_impact[position] ELSE 10
    IN  IF bracket \in DifferentialBrackets
        THEN base_modifier * position_multiplier * GetGameweekMultiplier(gameweek)
        ELSE base_modifier * position_multiplier * 10

CalculateOwnershipAdjustment(ownership_pct, position, gameweek) ==
    LET bracket == GetOwnershipBracket(ownership_pct)
        base_modifier == ownership_brackets[bracket].modifier
        position_multiplier ==
            IF position \in DOMAIN position_ownership_impact
            THEN position_ownership_impact[position] ELSE 10
        gameweek_multiplier == GetGameweekMultiplier(gameweek)
        final_modifier ==
            IF bracket \in DifferentialBrackets
            THEN base_modifier * position_multiplier * gameweek_multiplier
            ELSE base_modifier * position_multiplier * 10
    IN  [ownership_bracket |-> bracket,
         base_modifier |-> base_modifier,
         position_multiplier |-> position_multiplier,
         gameweek_multiplier |-> gameweek_multiplier,
         final_modifier |-> ClampModifier(final_modifier),
         risk_level |-> ownership_brackets[bracket].risk]

\* the ownerships around the bracket boundaries, positions with and without an
\* entry of the impact table, the gameweeks around the phases of the season
Ownerships == {49, 50, 149, 150, 299, 300, 499, 500}
AdjustedPositions == {"GK", "FWD", "MGR"}
SeasonGameweeks == {6, 7, 25, 26, 35, 36}

\* calculate_ownership_adjustment(ownership_pct, position, gameweek)
AdjustOwnership(ownership_pct, position, gameweek) ==
    /\ last_adjustment' =
        Some([ownership_pct |-> ownership_pct, position |-> position, gameweek |-> gameweek,
              value |-> CalculateOwnershipAdjustment(ownership_pct, position, gameweek)])
    /\ prev_adjustment' = last_adjustment
    /\ UNCHANGED <<last_op, engineVars>>
    /\ UNCHANGED <<now, ticks>>
    /\ UNCHANGED <<squadVars, fixtureVars>>

OwnershipNext ==
    \E ownership_pct \in Ownerships, position \in AdjustedPositions, gameweek \in SeasonGameweeks :
        AdjustOwnership(ownership_pct, position, gameweek)

OwnershipSpec == Init /\ [][OwnershipNext]_vars

-----------------------------------------------------------------------------
(* UnifiedAnalysisEngine *)
(* Scores are in ten-thousandths (0.7 is 7000), selection probabilities in *)
(* hundredths, form in tenths, ownership in tenths of a percent. The       *)
(* multi-objective score is rounded to four decimals as in the code; the   *)
(* other quotients are cut to four decimals, which keeps every comparison  *)
(* with a threshold of the code exact.                                     *)

\* None in a numeric field of a player record
NoValue == 0 - 100000

\* x or 0.0
OrZero(x) == IF x = NoValue THEN 0 ELSE x

\* the first values of random.random() after random.seed(42), cut to four decimals
RandomStream == <<6394, 250, 2750, 2232, 7364, 6766, 8921, 869,
                  4219, 297, 2186, 5053, 265, 1988, 6498, 5449>>

\* self.randomizer_thresholds, in insertion order
randomizer_thresholds ==
    <<[threshold |-> 90, base_chance |-> 45], [threshold |-> 80, base_chance |-> 30],
      [threshold |-> 70, base_chance |-> 18], [threshold |-> 60, base_chance |-> 12],
      [threshold |-> 0, base_chance |-> 6]>>

ownership_modifiers ==
    ("very_low" :> 15) @@ ("low" :> 8) @@ ("medium" :> 0) @@ ("high" :> 0 - 5)
        @@ ("very_high" :> 0 - 10)

GetOwnershipCategory(selected_by_percent) ==
    LET ownership_pct == OrZero(selected_by_percent)
    IN  IF ownership_pct < 50 THEN "very_low"
        ELSE IF ownership_pct < 150 THEN "low"
        ELSE IF ownership_pct < 300 THEN "medium"
        ELSE IF ownership_pct < 500 THEN "high"
        ELSE "very_high"

GetMomentumLevel(momentum_score) ==
    LET score == OrZero(momentum_score)
    IN  IF score >= 90 THEN "exceptional"
        ELSE IF score >= 80 THEN "high"
        ELSE IF score >= 70 THEN "medium"
        ELSE IF score >= 60 THEN "low"
        ELSE "very_low"

\* the loop over randomizer_thresholds.items(): the index of the first threshold
\* the momentum meets, 0 when it meets none
RECURSIVE MetThreshold(_, _)
MetThreshold(base_momentum, i) ==
    IF i > Len(randomizer_thresholds) THEN 0
    ELSE IF base_momentum >= randomizer_thresholds[i].threshold THEN i
    ELSE MetThreshold(base_momentum, i + 1)

ClampChanceUnbounded(adjusted_chance) == adjusted_chance

\* max(0.02, min(0.60, adjusted_chance))
ClampChance(adjusted_chance) == Max(2, Min(60, adjusted_chance))

\* adjusted_chance of a player whose momentum meets a threshold
AdjustedChance(player) ==
    ClampChance(randomizer_thresholds[MetThreshold(player.momentum_score, 1)].base_chance
                + ownership_modifiers[GetOwnershipCategory(player.selected_by_percent)])

\* None >= 0.9 raises TypeError, outside every try block
RandomizerRaises(player) == player.momentum_score = NoValue

DrawsAlways(player) == 1

\* random.random() is called inside the loop, once, for the threshold that is met
Draws(player) == IF MetThreshold(player.momentum_score, 1) = 0 THEN 0 ELSE 1

\* _apply_randomizer, with draws calls of random.random() made before
ApplyRandomizer(player, draws) ==
    IF MetThreshold(player.momentum_score, 1) = 0
    THEN [selected |-> FALSE, level |-> "very_low", chance |-> 0, draw |-> 0]
    ELSE [selected |-> RandomStream[draws + 1] < 100 * AdjustedChance(player),
          level |-> GetMomentumLevel(player.momentum_score),
          chance |-> AdjustedChance(player), draw |-> draws + 1]

CalculateMultiObjectiveScore(player) ==
    LET momentum_score == OrZero(player.momentum_score)
        price == Max(player.price, PriceFloor)
        \* 10000 * 0.25 * min(1.0, momentum / (price / 10)) is 2500 * value / price
        value == Min(price, momentum_score)
        form_part == IF player.form # NoValue /\ player.form > 0
                     THEN Min(1500, 15 * player.form) ELSE 750
    IN  RoundDiv((40 * momentum_score + 1400 + form_part) * price + 2500 * value, price)

CalculateCaptainScore(player) ==
    IF player.position \notin {"MID", "FWD"} THEN 0
    ELSE LET momentum == OrZero(player.momentum_score)
             points == player.total_points
             form == OrZero(player.form)
             base_score == 40 * momentum + Min(15 * points, 3000) + Min(20 * form, 2000)
             price_bonus == IF player.price >= 100 THEN 500 ELSE 0
             form_bonus == IF form >= 60 THEN 1000 ELSE 0
         IN  Min(10000, Max(0, base_score + price_bonus + form_bonus))

CalculateTransferPriority(player) ==
    LET momentum == OrZero(player.momentum_score)
        price == Max(player.price, PriceFloor)
        form == OrZero(player.form)
        form_bonus == Min(1000, 20 * form)
        ownership == OrZero(player.selected_by_percent)
        ownership_bonus == IF ownership < 100 THEN 1500
                           ELSE IF ownership < 200 THEN 800 ELSE 0
        \* 10000 * 0.3 * momentum / (price / 8) is 2400 * momentum / price
        transfer_priority ==
            ((50 * momentum + form_bonus + ownership_bonus) * price + 2400 * momentum)
                \div price
    IN  Min(10000, Max(0, transfer_priority))

CalculateValueRating(player) ==
    IF player.price <= 0 THEN 0
    ELSE \* ppm / 30 * 0.6 + mpm * 0.4 is (2 * points + 4 * momentum) / (10 * price)
         LET value_rating ==
                (1000 * (2 * player.total_points + 4 * OrZero(player.momentum_score)))
                    \div player.price
         IN  Min(10000, Max(0, value_rating))

GetRecommendation(player, selected) ==
    LET momentum == OrZero(player.momentum_score)
        ownership == OrZero(player.selected_by_percent)
    IN  IF ~selected
        THEN IF momentum > 70 THEN "MONITOR - high potential"
             ELSE IF momentum > 50 THEN "HOLD"
             ELSE "AVOID"
        ELSE IF momentum >= 90
             THEN IF ownership < 150 THEN "STRONG BUY - differential" ELSE "STRONG BUY"
        ELSE IF momentum >= 80 THEN "BUY"
        ELSE IF momentum >= 70 THEN "CONSIDER"
        ELSE "MONITOR - follow"

\* StandardPlayer with the fields the engine reads
ScoredPlayer(i, pos, pr, pts, mom, form, own) ==
    [player_id |-> i, position |-> pos, price |-> pr, total_points |-> pts,
     momentum_score |-> mom, form |-> form, selected_by_percent |-> own]

\* player.to_dict(), restricted to those fields
PlayerDict(player) ==
    [player_id |-> player.player_id, position |-> player.position,
     price |-> player.price, total_points |-> player.total_points,
     momentum_score |-> player.momentum_score, form |-> player.form,
     selected_by_percent |-> player.selected_by_percent]

\* the result dict of analyze_player, randomized is what _apply_randomizer returned
Analysis(player, randomized) ==
    [player |-> PlayerDict(player),
     momentum_level |-> randomized.level,
     selected |-> randomized.selected,
     recommendation |-> GetRecommendation(player, randomized.selected),
     captain_score |-> CalculateCaptainScore(player),
     transfer_priority |-> CalculateTransferPriority(player),
     multi_objective_score |-> CalculateMultiObjectiveScore(player),
     ownership_category |-> GetOwnershipCategory(player.selected_by_percent),
     value_rating |-> CalculateValueRating(player)]

\* f"player_analysis_{player.player_id}"
AnalysisKey(player) == <<"player_analysis", player.player_id>>

\* analyze_player(player) at time t. scoring is the cache, the number of draws,
\* the scorings completed so far in this request and whether one has raised.
AnalyzePlayer(scoring, player, t) ==
    LET cache_key == AnalysisKey(player)
        cached == CacheGet(scoring.cache, cache_key, t)
        looked_up == CacheAfterGet(scoring.cache, cache_key, t)
        randomized == ApplyRandomizer(player, scoring.draws)
        analysis == Analysis(player, randomized)
    IN  IF cached # None
        THEN [cache |-> looked_up, draws |-> scoring.draws, raised |-> FALSE,
              trace |-> Append(scoring.trace,
                               [player |-> player, cached |-> TRUE, draw |-> 0,
                                chance |-> 0, value |-> cached[1]])]
        ELSE IF RandomizerRaises(player)
        THEN [cache |-> looked_up, draws |-> scoring.draws, raised |-> TRUE,
              trace |-> scoring.trace]
        ELSE [cache |-> CacheSet(looked_up, cache_key, analysis, t),
              draws |-> scoring.draws + Draws(player), raised |-> FALSE,
              trace |-> Append(scoring.trace,
                               [player |-> player, cached |-> FALSE,
                                draw |-> randomized.draw, chance |-> randomized.chance,
                                value |-> analysis])]

\* for player in players: analysis = self.analyze_player(player)
RECURSIVE AnalyzeEach(_, _, _, _)
AnalyzeEach(players, i, scoring, t) ==
    IF i > Len(players) \/ scoring.raised THEN scoring
    ELSE AnalyzeEach(players, i + 1, AnalyzePlayer(scoring, players[i], t), t)

\* the value of the last scoring of a request
LastAnalysis(scoring) == scoring.trace[Len(scoring.trace)].value

\* the element goes behind every element whose key is not smaller (stable sort)
InsertDescending(sorted, x, field) ==
    LET ahead == Cardinality({i \in 1..Len(sorted) : sorted[i][field] >= x[field]})
    IN  SubSeq(sorted, 1, ahead) \o <<x>> \o SubSeq(sorted, ahead + 1, Len(sorted))

\* sorted(s, key=lambda x: x[field], reverse=True)
RECURSIVE SortDescending(_, _)
SortDescending(s, field) ==
    IF s = <<>> THEN <<>>
    ELSE InsertDescending(SortDescending(SubSeq(s, 1, Len(s) - 1), field), s[Len(s)], field)

\* s[:n]
Take(s, n) == SubSeq(s, 1, Min(n, Len(s)))

IsPositionCompatible(new_position, old_position) ==
    \/ old_position = "MID" /\ new_position = "FWD"
    \/ old_position = "FWD" /\ new_position = "MID"

GetTransferRecommendation(momentum_diff, price_diff) ==
    IF momentum_diff > 15 THEN "EXCELLENT UPGRADE"
    ELSE IF momentum_diff > 5 THEN "GOOD UPGRADE"
    ELSE IF momentum_diff > 0 - 5
         THEN IF price_diff < 0 - 10 THEN "SIDEWAYS MOVE - saves money"
              ELSE "SIDEWAYS MOVE - small gain"
    ELSE "QUESTIONABLE"

Truthy(x) == x # NoValue /\ x # 0

ComparePlayers(old_player, new_player) ==
    LET momentum_diff == new_player.momentum_score - old_player.momentum_score
    IN  [momentum_improvement |-> momentum_diff,
         points_difference |-> new_player.total_points - old_player.total_points,
         form_improvement |-> IF Truthy(new_player.form) /\ Truthy(old_player.form)
                              THEN new_player.form - old_player.form ELSE 0,
         recommendation |-> GetTransferRecommendation(momentum_diff,
                                new_player.price - old_player.price)]

\* the three assignments to analysis[...] of get_transfer_targets
WithComparison(analysis, player, player_to_sell, real_budget) ==
    [comparison |-> ComparePlayers(player_to_sell, player),
     price_difference |-> player.price - player_to_sell.price,
     budget_remaining |-> real_budget - player.price] @@ analysis

\* the loop over affordable_players of get_transfer_targets. The dict that
\* analyze_player returns is the dict held by the cache entry, so the assignments
\* change the entry.
RECURSIVE TransferEach(_, _, _, _, _, _, _)
TransferEach(players, i, scoring, player_to_sell, real_budget, t, transfer_targets) ==
    IF i > Len(players) \/ scoring.raised
    THEN [scoring |-> scoring, transfer_targets |-> transfer_targets]
    ELSE LET after == AnalyzePlayer(scoring, players[i], t)
             analysis == LastAnalysis(after)
             compared == WithComparison(analysis, players[i], player_to_sell, real_budget)
             key == AnalysisKey(players[i])
         IN  IF after.raised
             THEN [scoring |-> after, transfer_targets |-> transfer_targets]
             ELSE IF analysis.selected \/ analysis.multi_objective_score >= 7000
             THEN TransferEach(players, i + 1,
                               [after EXCEPT !.cache[key].data = compared],
                               player_to_sell, real_budget, t,
                               Append(transfer_targets, compared))
             ELSE TransferEach(players, i + 1, after, player_to_sell, real_budget, t,
                               transfer_targets)

\* the players the engine is asked about: two records of player 1 with different
\* values, a record without momentum, one with a negative momentum, no form and
\* a price of zero, one without ownership and with a form of zero
Star == ScoredPlayer(1, "MID", 50, 120, 92, 70, 30)
StarLater == ScoredPlayer(1, "MID", 55, 20, 30, 10, 600)
Forward == ScoredPlayer(2, "FWD", 100, 150, 85, 65, 350)
Bargain == ScoredPlayer(3, "MID", 45, 90, 65, 0, NoValue)
NoMomentum == ScoredPlayer(4, "DEF", 40, 10, NoValue, 20, 100)
Outcast == ScoredPlayer(5, "FWD", 0, 0, 0 - 10, NoValue, 200)

ScoredPlayers == {Star, StarLater, Forward, Bargain, NoMomentum, Outcast}

PickLists == {<<Bargain, Forward>>, <<Forward, Star, Bargain>>}
PickPrices == {30, 70, 120}
CaptainSquads == {<<Star, Forward, Outcast>>, <<Outcast>>}
TransferRequests ==
    {[all_players |-> <<Star, Forward, Bargain>>, current_squad |-> <<Forward>>,
      player_to_sell |-> Forward, available_budget |-> 20],
     [all_players |-> <<Star, Forward, Bargain>>, current_squad |-> <<>>,
      player_to_sell |-> Star, available_budget |-> 0]}

\* history: the first analysis returned for each player record
RECURSIVE RecordFirst(_, _, _)
RecordFirst(first, trace, i) ==
    IF i > Len(trace) THEN first
    ELSE IF trace[i].player \in DOMAIN first THEN RecordFirst(first, trace, i + 1)
    ELSE RecordFirst((trace[i].player :> trace[i].value) @@ first, trace, i + 1)

\* history: the uncached scorings of players with a momentum of 0 or more
UncachedScorings(trace) ==
    Cardinality({i \in 1..Len(trace) :
                    ~trace[i].cached /\ trace[i].player.momentum_score >= 0})

\* the state before the scorings of a request
Scoring == [cache |-> cache, draws |-> rng_draws, raised |-> FALSE, trace |-> <<>>]

Respond(op, args, scoring, raised, value) ==
    /\ requests < MaxRequests
    /\ scoring.draws <= Len(RandomStream)
    /\ requests' = requests + 1
    /\ cache' = scoring.cache
    /\ rng_draws' = scoring.draws
    /\ scorings' = scorings + UncachedScorings(scoring.trace)
    /\ first_scored' = RecordFirst(first_scored, scoring.trace, 1)
    /\ last_request' = Some([op |-> op, args |-> args, trace |-> scoring.trace,
                             raised |-> raised,
                             value |-> IF raised THEN None ELSE Some(value)])
    /\ UNCHANGED <<now, ticks, builderVars, fixtureVars, last_op, ownershipVars>>

\* analyze_player(player)
AnalyzePlayerCall(player) ==
    LET scoring == AnalyzePlayer(Scoring, player, now)
    IN  Respond("analyze_player", <<player>>, scoring, scoring.raised,
                IF scoring.raised THEN <<>> ELSE LastAnalysis(scoring))

\* get_captain_options(squad_players)
GetCaptainOptions(squad_players) ==
    LET attacker(p) == p.position \in {"MID", "FWD"}
        in_form(p) == attacker(p) /\ p.momentum_score >= 50
        \* None >= 0.5 raises in the first list comprehension
        raises == \E i \in 1..Len(squad_players) :
                      attacker(squad_players[i])
                      /\ squad_players[i].momentum_score = NoValue
        attacking_players ==
            IF SelectSeq(squad_players, in_form) # <<>>
            THEN SelectSeq(squad_players, in_form)
            ELSE SelectSeq(squad_players, attacker)
        scoring == IF raises THEN Scoring
                   ELSE AnalyzeEach(attacking_players, 1, Scoring, now)
        captain_options == [i \in 1..Len(scoring.trace) |-> scoring.trace[i].value]
    IN  Respond("get_captain_options", <<squad_players>>, scoring,
                raises \/ scoring.raised,
                IF squad_players = <<>> THEN <<>>
                ELSE Take(SortDescending(captain_options, "captain_score"), 5))

\* get_transfer_targets(all_players, current_squad, player_to_sell, available_budget)
\* with a player to sell
GetTransferTargets(request) ==
    LET player_to_sell == request.player_to_sell
        real_budget == request.available_budget + player_to_sell.price
        current_ids == {request.current_squad[i].player_id :
                            i \in 1..Len(request.current_squad)}
        available(p) == p.player_id \notin current_ids
        available_players == SelectSeq(request.all_players, available)
        target_position == player_to_sell.position
        in_budget(p) == p.price <= real_budget
        \* None >= 0.6 raises in the list comprehension
        raises == \E i \in 1..Len(available_players) :
                      in_budget(available_players[i])
                      /\ available_players[i].momentum_score = NoValue
        affordable(p) ==
            /\ in_budget(p)
            /\ p.momentum_score >= 60
            /\ (p.position = target_position
                \/ IsPositionCompatible(p.position, target_position))
        affordable_players == SelectSeq(available_players, affordable)
        done == IF raises THEN [scoring |-> Scoring, transfer_targets |-> <<>>]
                ELSE TransferEach(affordable_players, 1, Scoring, player_to_sell,
                                  real_budget, now, <<>>)
    IN  Respond("get_transfer_targets", <<request>>, done.scoring,
                raises \/ done.scoring.raised,
                [selling_player |-> PlayerDict(player_to_sell),
                 real_budget |-> real_budget,
                 targets |-> Take(SortDescending(done.transfer_targets,
                                                 "transfer_priority"), 10)])

\* get_value_picks(players, max_price): the test of value_rating stands after the
\* loop, so it sees the analysis of the last player of budget_players and raises
\* UnboundLocalError when there is none
GetValuePicks(players, max_price) ==
    LET in_budget(p) == p.price <= max_price
        budget_players == SelectSeq(players, in_budget)
        scoring == AnalyzeEach(budget_players, 1, Scoring, now)
        raises == scoring.raised \/ budget_players = <<>>
        value_picks == IF ~raises /\ LastAnalysis(scoring).value_rating >= 7000
                       THEN <<LastAnalysis(scoring)>> ELSE <<>>
    IN  Respond("get_value_picks", <<players, max_price>>, scoring, raises,
                Take(SortDescending(value_picks, "value_rating"), 10))

EngineNext ==
    \/ \E player \in ScoredPlayers : AnalyzePlayerCall(player)
    \/ \E squad_players \in CaptainSquads : GetCaptainOptions(squad_players)
    \/ \E request \in TransferRequests : GetTransferTargets(request)
    \/ \E players \in PickLists, max_price \in PickPrices : GetValuePicks(players, max_price)
    \/ Tick

EngineSpec == Init /\ [][EngineNext]_vars

----------------------------------------------------------------------------
(* Properties of the fixture analyzer *)

SameWindow ==
    /\ last_single # None
    /\ last_batch # None
    /\ last_single[1].gameweeks_ahead = last_batch[1].gameweeks_ahead
    /\ last_single[1].team_id \in DOMAIN teams_lookup

\* C10 (as claimed): for every window and every team of the lookup the batch result
\* has an entry for the team and it equals what analyze_team_fixtures returns, also
\* when no fixture lies in the window.
C10_BatchEqualsSingle ==
    SameWindow =>
        /\ last_single[1].team_id \in DOMAIN last_batch[1].value
        /\ last_batch[1].value[last_single[1].team_id] = last_single[1].value

\* the same for a batch result that is not empty
C10_NonEmptyBatchEqualsSingle ==
    (SameWindow /\ DOMAIN last_batch[1].value # {}) => C10_BatchEqualsSingle

C10_NonEmptyWitness ==
    /\ SameWindow
    /\ DOMAIN last_batch[1].value # {}
    /\ last_single[1].value.fixtures_count = 2
    /\ last_single[1].value.double_gameweek_count = 1

\* the last analyze_team_fixtures call
SingleCall == last_single[1]

\* rows of fixtures_df from current_gameweek on, before current_gameweek + w, with
\* team t on either side
WindowRows(t, w) ==
    {i \in 1..Len(fixtures_df) :
        /\ current_gameweek <= fixtures_df[i].event
        /\ fixtures_df[i].event < current_gameweek + w
        /\ (fixtures_df[i].team_h = t \/ fixtures_df[i].team_a = t)}

CalledRows == WindowRows(SingleCall.team_id, SingleCall.gameweeks_ahead)

\* C11: a team without a fixture in the requested window (also with no fixtures at
\* all, also a team id that is in no lookup) gets fixtures_count 0, avg_difficulty
\* 0.5, home_games_ratio 0.5, double_gameweek_bonus 0.0 and no upcoming fixtures,
\* with team_name 'Unknown' when the team id is not in the lookup.
C11_NeutralResult ==
    (last_single # None /\ CalledRows = {}) =>
        /\ SingleCall.value.fixtures_count = 0
        /\ SingleCall.value.avg_difficulty = 500
        /\ SingleCall.value.home_games_ratio = 500
        /\ SingleCall.value.double_gameweek_bonus = 0
        /\ SingleCall.value.upcoming_fixtures = <<>>
        /\ SingleCall.team_id \notin DOMAIN teams_lookup =>
            SingleCall.value.team_name = "Unknown"

\* a team that is in no lookup and has fixtures, none of them in the window
C11_Witness ==
    /\ last_single # None
    /\ CalledRows = {}
    /\ \E i \in 1..Len(fixtures_df) : Involves(fixtures_df[i], SingleCall.team_id)
    /\ teams_lookup # <<>>
    /\ SingleCall.team_id \notin DOMAIN teams_lookup
    /\ SingleCall.value.team_name = "Unknown"

\* C12: the upcoming fixtures of analyze_team_fixtures(t, w) are, in order, the rows
\* of the window with t on either side; fixtures_count is their number; each uses
\* the home difficulty when t is at home and the away difficulty otherwise; with at
\* least one fixture home_games_ratio is the fraction played at home (to the three
\* decimals of the result).
C12_WindowFixtures ==
    last_single # None =>
        LET t == SingleCall.team_id
            up == SingleCall.value.upcoming_fixtures
            n == Cardinality(CalledRows)
            home == Cardinality({i \in CalledRows : fixtures_df[i].team_h = t})
            ratio == SingleCall.value.home_games_ratio
        IN  /\ SingleCall.value.fixtures_count = n
            /\ Len(up) = n
            /\ \E g \in [1..n -> CalledRows] :
                /\ \A j, k \in 1..n : j < k => g[j] < g[k]
                /\ \A k \in 1..n :
                    /\ up[k].gameweek = fixtures_df[g[k]].event
                    /\ up[k].is_home = (fixtures_df[g[k]].team_h = t)
                    /\ up[k].opponent_id =
                        (IF fixtures_df[g[k]].team_h = t THEN fixtures_df[g[k]].team_a
                         ELSE fixtures_df[g[k]].team_h)
                    /\ up[k].difficulty_raw =
                        (IF fixtures_df[g[k]].team_h = t
                         THEN fixtures_df[g[k]].team_h_difficulty
                         ELSE fixtures_df[g[k]].team_a_difficulty)
            /\ n > 0 =>
                /\ 2 * (ratio * n - 1000 * home) <= n
                /\ 2 * (1000 * home - ratio * n) <= n

\* a team with home and away fixtures in the window and a fixture in the first
\* event after it
C12_Witness ==
    /\ last_single # None
    /\ \E j, k \in 1..Len(SingleCall.value.upcoming_fixtures) :
        /\ SingleCall.value.upcoming_fixtures[j].is_home
        /\ ~SingleCall.value.upcoming_fixtures[k].is_home
    /\ SingleCall.value.fixtures_count = 2
    /\ \E i \in 1..Len(fixtures_df) :
        /\ Involves(fixtures_df[i], SingleCall.team_id)
        /\ fixtures_df[i].event = current_gameweek + SingleCall.gameweeks_ahead

RawDifficulties == 1..5

\* C13: the normalized difficulty of a fixture is non-increasing in the raw
\* difficulty over 1..5, lies in [0, 1], is 1.0 for raw 1 and 0.25 for raw 5; and
\* so are the normalized difficulties of every returned fixture.
C13_NormalizedDifficulty ==
    /\ \A a, b \in RawDifficulties :
        a < b => NormalizedQuarters(a) >= NormalizedQuarters(b)
    /\ \A d \in RawDifficulties : NormalizedQuarters(d) \in 0..4
    /\ NormalizedQuarters(1) = 4
    /\ NormalizedQuarters(5) = 1
    /\ last_single # None =>
        LET up == SingleCall.value.upcoming_fixtures
        IN  \A j, k \in 1..Len(up) :
                /\ up[j].difficulty_raw \in RawDifficulties
                /\ up[j].difficulty_normalized \in 0..1000
                /\ up[j].difficulty_raw = 1 => up[j].difficulty_normalized = 1000
                /\ up[j].difficulty_raw = 5 => up[j].difficulty_normalized = 250
                /\ up[j].difficulty_raw < up[k].difficulty_raw =>
                    up[j].difficulty_normalized >= up[k].difficulty_normalized

\* a result with a fixture of raw difficulty 1 and one of raw difficulty 2
C13_Witness ==
    /\ last_single # None
    /\ \E j, k \in 1..Len(SingleCall.value.upcoming_fixtures) :
        /\ SingleCall.value.upcoming_fixtures[j].difficulty_raw = 1
        /\ SingleCall.value.upcoming_fixtures[j].difficulty_normalized = 1000
        /\ SingleCall.value.upcoming_fixtures[k].difficulty_raw = 2

RECURSIVE SumNormalized(_)
SumNormalized(up) ==
    IF up = <<>> THEN 0
    ELSE Head(up).difficulty_normalized + SumNormalized(Tail(up))

\* the events of the window in which the called team has more than one fixture
DoubleRounds ==
    {e \in {fixtures_df[i].event : i \in CalledRows} :
        Cardinality({i \in CalledRows : fixtures_df[i].event = e}) > 1}

\* two home fixtures in consecutive events, of raw difficulty 2 and 4
TwoHomeFixturesExample ==
    /\ last_single # None
    /\ Cardinality(CalledRows) = 2
    /\ \E i, j \in CalledRows :
        /\ fixtures_df[j].event = fixtures_df[i].event + 1
        /\ fixtures_df[i].team_h = SingleCall.team_id
        /\ fixtures_df[j].team_h = SingleCall.team_id
        /\ fixtures_df[i].team_h_difficulty = 2
        /\ fixtures_df[j].team_h_difficulty = 4

\* C14: double_gameweek_count is the number of events of the window in which the
\* team has more than one fixture, double_gameweek_bonus is min(0.3, 0.15 * count),
\* avg_difficulty is the mean of the normalized difficulties of the fixtures (to
\* the three decimals of the result); two home fixtures in events R and R+1 of raw
\* difficulty 2 and 4 give avg_difficulty 0.75, home_games_ratio 1.0, bonus 0.0.
C14_DoubleGameweeksAndMean ==
    last_single # None =>
        LET v == SingleCall.value
            n == v.fixtures_count
            count == Cardinality(DoubleRounds)
            total == SumNormalized(v.upcoming_fixtures)
        IN  /\ v.double_gameweek_count = count
            /\ v.double_gameweek_bonus = (IF 150 * count < 300 THEN 150 * count ELSE 300)
            /\ n > 0 =>
                /\ 2 * (v.avg_difficulty * n - total) <= n
                /\ 2 * (total - v.avg_difficulty * n) <= n
            /\ TwoHomeFixturesExample =>
                /\ v.avg_difficulty = 750
                /\ v.home_games_ratio = 1000
                /\ v.double_gameweek_bonus = 0

\* the example of the claim
C14_Witness ==
    /\ TwoHomeFixturesExample
    /\ SingleCall.value.avg_difficulty = 750
    /\ SingleCall.value.double_gameweek_count = 0

\* a team with a double gameweek in each of three events: the bonus is capped
ThreeDoubleGameweeks ==
    /\ last_single # None
    /\ SingleCall.value.double_gameweek_count = 3
    /\ SingleCall.value.double_gameweek_bonus = 300

LiveEntries(store) ==
    Cardinality({k \in DOMAIN store : now - store[k].timestamp < FixtureTimeout})

\* C18 (as claimed): the sizes get_cache_statistics reports count the entries whose
\* age is below the cache timeout; an expired entry that was neither looked up nor
\* cleaned is not counted.
C18_LiveCounts ==
    [][GetCacheStatistics =>
        /\ last_stats'[1].fixtures_cache_size = LiveEntries(smart_cache.fixtures)
        /\ last_stats'[1].teams_cache_size = LiveEntries(smart_cache.teams)
        /\ last_stats'[1].batch_analysis_cache_size = LiveEntries(smart_cache.batch_analysis)
        /\ last_stats'[1].gameweek_cache_cache_size = LiveEntries(smart_cache.gameweek_cache)]_vars

\* what the code reports: every stored entry, live or not
C18_StoredCounts ==
    [][GetCacheStatistics =>
        /\ last_stats'[1].fixtures_cache_size = Cardinality(DOMAIN smart_cache.fixtures)
        /\ last_stats'[1].batch_analysis_cache_size =
            Cardinality(DOMAIN smart_cache.batch_analysis)]_vars

\* statistics that count an entry which is no longer live
C18_ExpiredCounted ==
    /\ last_stats # None
    /\ last_stats[1].fixtures_cache_size > LiveEntries(smart_cache.fixtures)

----------------------------------------------------------------------------
(* Properties of the central cache and of key generation *)

CacheCall == last_op[1]

\* what a get has to do with the entry it found
GetServesLiveOnly ==
    (last_op # None /\ CacheCall.op = "get") =>
        /\ CacheCall.before = None => CacheCall.returned = None
        /\ (CacheCall.before # None /\ CacheCall.age < CacheTimeout) =>
            /\ CacheCall.returned = Some(CacheCall.before[1].data)
            /\ CacheCall.key \in DOMAIN cache
            /\ cache[CacheCall.key] = CacheCall.before[1]
        /\ (CacheCall.before # None /\ CacheCall.age >= CacheTimeout) =>
            /\ CacheCall.returned = None
            /\ CacheCall.key \notin DOMAIN cache

\* C15: get(k) of an entry set at t0 and neither set again nor cleared returns its
\* value while now - t0 < timeout, and from then on returns None and removes k; an
\* entry leaves the map only by such an expired lookup or by clear().
C15_ExpiryOnLookup ==
    [][/\ GetServesLiveOnly'
       /\ \A k \in DOMAIN cache :
            /\ k \in DOMAIN cache' =>
                (cache'[k] = cache[k] \/ (CacheCall'.op = "set" /\ CacheCall'.key = k))
            /\ k \notin DOMAIN cache' =>
                \/ CacheCall'.op = "clear"
                \/ /\ CacheCall'.op = "get"
                   /\ CacheCall'.key = k
                   /\ now - cache[k].timestamp >= CacheTimeout]_vars

\* a lookup at the very moment the entry's age reaches the timeout, while another
\* entry stays
C15_Witness ==
    /\ last_op # None
    /\ CacheCall.op = "get"
    /\ CacheCall.before # None
    /\ CacheCall.age = CacheTimeout
    /\ CacheCall.returned = None
    /\ CacheCall.key \notin DOMAIN cache
    /\ cache # <<>>

SameItems(kw1, kw2) ==
    /\ Len(kw1) = Len(kw2)
    /\ {kw1[i] : i \in 1..Len(kw1)} = {kw2[i] : i \in 1..Len(kw2)}

\* C16: make_key and _generate_cache_key give the same key to the same positional
\* arguments with the same keyword pairs, in whatever order the pairs are passed.
C16_OrderIndependentKeys ==
    /\ (last_op # None /\ CacheCall.op = "make_key") =>
        \A kwargs \in KwargLists :
            SameItems(kwargs, CacheCall.kwargs) =>
                MakeKey(CacheCall.args, kwargs) = CacheCall.key
    /\ (last_op # None /\ CacheCall.op = "generate_cache_key") =>
        \A kwargs \in KwargLists :
            SameItems(kwargs, CacheCall.kwargs) =>
                GenerateCacheKeyFrom(CacheCall.args, kwargs) = CacheCall.key

\* a key made from keyword arguments passed in the order that sorting reverses
C16_Witness ==
    /\ last_op # None
    /\ CacheCall.op = "make_key"
    /\ CacheCall.kwargs = <<TeamItem(1), GameweekItem>>
    /\ CacheCall.key[2] = <<GameweekItem, TeamItem(1)>>
    /\ CacheCall.key \in DOMAIN cache

----------------------------------------------------------------------------
(* Properties of the ownership weights *)

Adjusted == last_adjustment[1]
AdjustedBefore == prev_adjustment[1]

\* C19: the bracket is template from 50 %, popular from 30 %, medium from 15 %,
\* differential from 5 % and contrarian below (lower bounds inclusive), and of two
\* ownerships in different brackets the smaller has the larger base modifier.
C19_BracketsMonotone ==
    /\ last_adjustment # None =>
        /\ Adjusted.value.ownership_bracket = "template" <=> Adjusted.ownership_pct >= 500
        /\ Adjusted.value.ownership_bracket = "popular" <=>
            (Adjusted.ownership_pct >= 300 /\ Adjusted.ownership_pct < 500)
        /\ Adjusted.value.ownership_bracket = "medium" <=>
            (Adjusted.ownership_pct >= 150 /\ Adjusted.ownership_pct < 300)
        /\ Adjusted.value.ownership_bracket = "differential" <=>
            (Adjusted.ownership_pct >= 50 /\ Adjusted.ownership_pct < 150)
        /\ Adjusted.value.ownership_bracket = "contrarian" <=> Adjusted.ownership_pct < 50
    /\ (/\ prev_adjustment # None
        /\ AdjustedBefore.ownership_pct < Adjusted.ownership_pct
        /\ AdjustedBefore.value.ownership_bracket # Adjusted.value.ownership_bracket) =>
            AdjustedBefore.value.base_modifier > Adjusted.value.base_modifier

\* an ownership on a lower bound after the ownership just below it
C19_Witness ==
    /\ prev_adjustment # None
    /\ AdjustedBefore.ownership_pct = 499
    /\ Adjusted.ownership_pct = 500
    /\ AdjustedBefore.value.ownership_bracket = "popular"
    /\ Adjusted.value.ownership_bracket = "template"

\* the season-phase multiplier of a gameweek, in tenths
SeasonPhase(gameweek) ==
    IF gameweek <= 6 THEN 8 ELSE IF gameweek <= 25 THEN 10 ELSE IF gameweek <= 35 THEN 13 ELSE 15

\* C20: in the template, popular and medium brackets the final modifier is the
\* same in every gameweek; in the differential and contrarian brackets it is the
\* base modifier times the position multiplier times the season-phase multiplier
\* (0.8 up to gameweek 6, 1.0 up to 25, 1.3 up to 35, 1.5 afterwards), capped at 0.25.
C20_SeasonPhase ==
    /\ (/\ prev_adjustment # None
        /\ Adjusted.value.ownership_bracket \in {"template", "popular", "medium"}
        /\ AdjustedBefore.value.ownership_bracket = Adjusted.value.ownership_bracket
        /\ AdjustedBefore.position = Adjusted.position) =>
            AdjustedBefore.value.final_modifier = Adjusted.value.final_modifier
    /\ (/\ last_adjustment # None
        /\ Adjusted.value.ownership_bracket \in {"differential", "contrarian"}) =>
            LET scaled == Adjusted.value.base_modifier * Adjusted.value.position_multiplier
                          * SeasonPhase(Adjusted.gameweek)
            IN  Adjusted.value.final_modifier = (IF scaled > 25000 THEN 25000 ELSE scaled)

\* a template player in the early season after the same player in the final
\* stretch
C20_Witness ==
    /\ prev_adjustment # None
    /\ Adjusted.value.ownership_bracket = "template"
    /\ AdjustedBefore.value.ownership_bracket = "template"
    /\ AdjustedBefore.position = Adjusted.position
    /\ AdjustedBefore.gameweek = 36
    /\ Adjusted.gameweek = 6
    /\ Adjusted.value.final_modifier < 0

-----------------------------------------------------------------------------
\* C21: for every ownership percentage, position (known or not) and gameweek the
\* final_modifier of calculate_ownership_adjustment lies in [-0.2, +0.25], two
\* consecutive calls with identical inputs return identical results, and the
\* computation leaves the shared cache as it was (it reads and writes no state).
C21_ClampedAndStateless ==
    /\ cache = <<>>
    /\ last_adjustment # None =>
        /\ Adjusted.value.final_modifier >= 0 - 20000
        /\ Adjusted.value.final_modifier <= 25000
    /\ (/\ prev_adjustment # None
        /\ AdjustedBefore.ownership_pct = Adjusted.ownership_pct
        /\ AdjustedBefore.position = Adjusted.position
        /\ AdjustedBefore.gameweek = Adjusted.gameweek) =>
            AdjustedBefore.value = Adjusted.value

\* a contrarian forward late in the season, 0.15 * 1.2 * 1.5 = 0.27 before the
\* clamp, adjusted twice in a row
C21_Witness ==
    /\ prev_adjustment # None
    /\ AdjustedBefore = Adjusted
    /\ RawModifier(Adjusted.ownership_pct, Adjusted.position, Adjusted.gameweek) > 25000
    /\ Adjusted.value.final_modifier = 25000

-----------------------------------------------------------------------------
\* the squad-in-progress when the k-th repaired player of a selection is added:
\* the groups selected before, the greedy picks and the earlier repairs
BeforeRepair(step, k) ==
    step.xi_before \o step.bench_before
        \o SubSeq(step.selected, 1, Len(step.selected) - Len(step.repaired) + k - 1)

\* C28: every player added by the repair loop of _select_players belongs to a team
\* that already has 3 or more players in the squad-in-progress.
C28_RepairAddsCapViolators ==
    \A i \in 1..Len(steps) :
        \A k \in 1..Len(steps[i].repaired) :
            TeamSize(BeforeRepair(steps[i], k), steps[i].repaired[k].team_name) >= TeamCap

\* a returned squad with a repaired group
C28_Witness ==
    /\ FreshReturn
    /\ \E i \in 1..Len(steps) : steps[i].repaired # <<>>

\* C29: no player appears twice in the squad returned by build_squad, every squad
\* member is eligible, and at every step the used_teams counter of each team is the
\* number of players of that team selected so far.
C29_DistinctEligibleCounted ==
    /\ Returned =>
        /\ \A i, j \in 1..Len(Squad) : i # j => Squad[i].player_id # Squad[j].player_id
        /\ \A i \in 1..Len(Squad) :
            /\ Squad[i].chance_of_playing # NoChance
            /\ Squad[i].chance_of_playing >= 75
            /\ Squad[i].price > 0
    /\ \A t \in DOMAIN used_teams \cup {(starting_xi \o bench)[i].team_name :
                                          i \in 1..Len(starting_xi \o bench)} :
        Get(used_teams, t) = TeamSize(starting_xi \o bench, t)

\* a complete squad of 15 built from a pool with an ineligible player, one group
\* of it filled by the repair loop
C29_Witness ==
    /\ FreshReturn
    /\ Len(Squad) = SquadSize
    /\ \E i \in 1..Len(all_players) : ~Eligible(all_players[i])
    /\ \E i \in 1..Len(steps) : steps[i].repaired # <<>>
    /\ \E t \in DOMAIN used_teams : used_teams[t] > TeamCap

-----------------------------------------------------------------------------
(* Properties of the analysis engine *)

\* the analyze_player calls of the last request, in order
Trace == IF last_request = None THEN <<>> ELSE last_request[1].trace

\* the calls of the last request in which the randomized selection was made
Randomized == {i \in 1..Len(Trace) : ~Trace[i].cached /\ Trace[i].draw # 0}

BaseChanceOf(momentum) ==
    IF momentum >= 90 THEN 45
    ELSE IF momentum >= 80 THEN 30
    ELSE IF momentum >= 70 THEN 18
    ELSE IF momentum >= 60 THEN 12
    ELSE 6

ModifierOf(ownership) ==
    IF ownership = NoValue \/ ownership < 50 THEN 15
    ELSE IF ownership < 150 THEN 8
    ELSE IF ownership < 300 THEN 0
    ELSE IF ownership < 500 THEN 0 - 5
    ELSE 0 - 10

Clamped(lo, x, hi) == IF x < lo THEN lo ELSE IF x > hi THEN hi ELSE x

\* C22: in the randomized selection of analyze_player the base probability is the
\* one of the highest threshold of 0.9, 0.8, 0.7, 0.6, 0.0 the momentum meets, the
\* modifier of the 5-bucket ownership category is added, and the resulting
\* selection probability lies in [0.02, 0.60].
C22_SelectionProbability ==
    \A i \in Randomized :
        /\ Trace[i].chance =
            Clamped(2, BaseChanceOf(Trace[i].player.momentum_score)
                       + ModifierOf(Trace[i].player.selected_by_percent), 60)
        /\ Trace[i].chance >= 2
        /\ Trace[i].chance <= 60

\* a request that scored, uncached, a player whose probability was raised to 0.02
\* (0.06 - 0.10) and, in an earlier request, one at 0.60 (0.45 + 0.15)
C22_Witness ==
    /\ \E i \in Randomized :
        /\ Trace[i].chance = 2
        /\ BaseChanceOf(Trace[i].player.momentum_score)
           + ModifierOf(Trace[i].player.selected_by_percent) < 2
    /\ Star \in DOMAIN first_scored

DerivedFields ==
    {"momentum_level", "multi_objective_score", "captain_score", "transfer_priority",
     "ownership_category", "value_rating"}

\* C23 (as claimed): scoring the same unmodified player again, after any other
\* scorings and any elapsed time, yields the momentum_level, multi_objective_score,
\* captain_score, transfer_priority, ownership_category and value_rating of its
\* first scoring.
C23_SameDerivedFields ==
    \A i \in 1..Len(Trace) :
        Trace[i].player \in DOMAIN first_scored =>
            \A field \in DerivedFields :
                Trace[i].value[field] = first_scored[Trace[i].player][field]

\* no record with the player_id of p and other field values has been scored
OnlyRecordOfItsId(p) ==
    \A q \in DOMAIN first_scored : q.player_id = p.player_id => q = p

\* the same for players of which no other record with the same player_id was scored
C23_SameDerivedFieldsOneRecord ==
    \A i \in 1..Len(Trace) :
        (Trace[i].player \in DOMAIN first_scored /\ OnlyRecordOfItsId(Trace[i].player)) =>
            \A field \in DerivedFields :
                Trace[i].value[field] = first_scored[Trace[i].player][field]

\* a player scored again from a new entry after its first entry expired
C23_OneRecordWitness ==
    \E i \in 1..Len(Trace) :
        /\ ~Trace[i].cached
        /\ OnlyRecordOfItsId(Trace[i].player)
        /\ Trace[i].value.selected # first_scored[Trace[i].player].selected

\* the draws made by the last request
DrawnNow == UncachedScorings(Trace)

\* the uncached scorings with momentum >= 0 among the first i of the last request
DrawnUpTo(i) ==
    Cardinality({j \in 1..i : ~Trace[j].cached /\ Trace[j].player.momentum_score >= 0})

\* C24: the generator is advanced by exactly one draw per uncached scoring of a
\* player with momentum >= 0 and by none on a cache hit, so the selected flag of
\* a scoring is fixed by the seed and the position of the scoring in the sequence
\* of such scorings since the seed.
C24_OneDrawPerScoring ==
    /\ rng_draws = scorings
    /\ \A i \in 1..Len(Trace) :
        IF ~Trace[i].cached /\ Trace[i].player.momentum_score >= 0
        THEN /\ Trace[i].draw = rng_draws - DrawnNow + DrawnUpTo(i)
             /\ Trace[i].value.selected
                    = (RandomStream[Trace[i].draw] < 100 * Trace[i].chance)
        ELSE /\ Trace[i].draw = 0
             /\ ~Trace[i].cached => ~Trace[i].value.selected

\* a request with a cache hit between two uncached scorings, after a player with
\* a negative momentum was scored
C24_Witness ==
    /\ Outcast \in DOMAIN first_scored
    /\ \E i, j, k \in 1..Len(Trace) :
        /\ i < j /\ j < k
        /\ ~Trace[i].cached /\ Trace[j].cached /\ ~Trace[k].cached
        /\ Trace[k].draw = Trace[i].draw + 1

\* C25 (as claimed): the result of analyze_player(p) holds the fields of p and the
\* scores computed from them, also when a record with the same player_id and
\* other field values was scored before.
C25_ScoresOfPassedRecord ==
    \A i \in 1..Len(Trace) :
        /\ Trace[i].value.player = PlayerDict(Trace[i].player)
        /\ Trace[i].value.multi_objective_score
            = CalculateMultiObjectiveScore(Trace[i].player)
        /\ Trace[i].value.captain_score = CalculateCaptainScore(Trace[i].player)
        /\ Trace[i].value.transfer_priority = CalculateTransferPriority(Trace[i].player)
        /\ Trace[i].value.value_rating = CalculateValueRating(Trace[i].player)
        /\ Trace[i].value.ownership_category
            = GetOwnershipCategory(Trace[i].player.selected_by_percent)
        /\ Trace[i].value.momentum_level = GetMomentumLevel(Trace[i].player.momentum_score)

\* the same for scorings that were computed, not served from the cache
C25_ScoresOfPassedRecordUncached ==
    \A i \in 1..Len(Trace) :
        ~Trace[i].cached =>
            /\ Trace[i].value.player = PlayerDict(Trace[i].player)
            /\ Trace[i].value.value_rating = CalculateValueRating(Trace[i].player)

AnalysisFields ==
    {"player", "momentum_level", "selected", "recommendation", "captain_score",
     "transfer_priority", "multi_objective_score", "ownership_category", "value_rating"}

\* C26 (as claimed): analyze_player returns a complete result without raising for
\* every player record.
C26_NeverRaises ==
    (last_request # None /\ last_request[1].op = "analyze_player") =>
        /\ ~last_request[1].raised
        /\ AnalysisFields \subseteq DOMAIN last_request[1].value[1]

\* analyze_player raises only for a record without momentum
C26_RaisesWithoutMomentum ==
    (last_request # None /\ last_request[1].op = "analyze_player") =>
        (last_request[1].raised <=> last_request[1].args[1].momentum_score = NoValue)

\* the players of a list that get_value_picks is claimed to return, with their
\* ratings
RECURSIVE ValuePicksOf(_, _)
ValuePicksOf(players, max_price) ==
    IF players = <<>> THEN <<>>
    ELSE LET p == players[Len(players)]
             others == ValuePicksOf(SubSeq(players, 1, Len(players) - 1), max_price)
         IN  IF p.price <= max_price /\ CalculateValueRating(p) >= 7000
             THEN Append(others, [player_id |-> p.player_id,
                                  value_rating |-> CalculateValueRating(p)])
             ELSE others

\* C27 (as claimed): get_value_picks(players, max_price) returns, sorted by
\* value_rating descending and cut to 10, every player with price <= max_price
\* and value_rating >= 0.7, and the empty list, without raising, when no player
\* is priced at or below max_price.
C27_ValuePicks ==
    (last_request # None /\ last_request[1].op = "get_value_picks") =>
        /\ ~last_request[1].raised
        /\ LET value == last_request[1].value[1]
               expected == Take(SortDescending(ValuePicksOf(last_request[1].args[1],
                                                            last_request[1].args[2]),
                                               "value_rating"), 10)
           IN  [i \in 1..Len(value) |-> value[i].player.player_id]
                   = [i \in 1..Len(expected) |-> expected[i].player_id]

TransferFields == {"comparison", "price_difference", "budget_remaining"}

\* C30 (as claimed): after any get_transfer_targets and get_captain_options calls
\* analyze_player on a live cache entry returns the fields of the first scoring,
\* with no comparison, price_difference or budget_remaining field.
C30_CachedAnalysisUnchanged ==
    \A i \in 1..Len(Trace) :
        Trace[i].cached => DOMAIN Trace[i].value \cap TransferFields = {}

\* get_captain_options adds no field to a cached analysis
C30_CaptainOptionsKeepCache ==
    (last_request # None /\ last_request[1].op = "get_captain_options") =>
        \A k \in DOMAIN cache :
            \A i \in 1..Len(Trace) :
                (AnalysisKey(Trace[i].player) = k /\ ~Trace[i].cached) =>
                    cache[k].data = Trace[i].value

====
